---------------------------- MODULE Spec2Model ----------------------------
(***************************************************************************)
(* A model of the overseas-entities data creator: the registry client and  *)
(* entity resolver (roe_2_find_BOs.py), the name normaliser                *)
(* (roe_common_functions.py) and the classification engine                 *)
(* (roe_5_categorise_BOs.py).                                              *)
(*                                                                         *)
(* Python values are modelled as follows.  A str is a TLA+ string; None is *)
(* the string PyNone where a str may stand, the record PyNoneValue where a *)
(* JSON value may.  Text is processed character by character with SubSeq,  *)
(* as the regular expressions of the source do.  The steps of a function   *)
(* are local definitions of the operator that models it.                   *)
(***************************************************************************)
EXTENDS Integers, Sequences, FiniteSets, TLC

(***************************************************************************)
(* Characters and strings                                                  *)
(***************************************************************************)
Ch(s, i) == SubSeq(s, i, i)

UpperLetters == "ABCDEFGHIJKLMNOPQRSTUVWXYZ"

LowerLetters == "abcdefghijklmnopqrstuvwxyz"

Digits == "0123456789"

\* Letters carrying a diacritic, and the base letters NFKD folding leaves.
Accented ==
    [upper |-> "ÉÈÀÜÖ", lower |-> "éèàüö", upper_base |-> "EEAUO", lower_base |-> "eeauo"]

InStr(c, s) == \E i \in 1..Len(s) : Ch(s, i) = c

IndexIn(c, s) == CHOOSE i \in 1..Len(s) : Ch(s, i) = c

\* str.lower() as a table: each upper-case character with its lower-case one
LowerMap ==
    LET from == UpperLetters \o Accented.upper
        to == LowerLetters \o Accented.lower
    IN  [c \in {Ch(from, i) : i \in 1..Len(from)} |-> Ch(to, IndexIn(c, from))]

\* _fold as a table: NFKD decomposition with the combining marks dropped
FoldMap ==
    LET from == Accented.lower \o Accented.upper
        to == Accented.lower_base \o Accented.upper_base
    IN  [c \in {Ch(from, i) : i \in 1..Len(from)} |-> Ch(to, IndexIn(c, from))]

RECURSIVE str_lower(_)
str_lower(s) ==
    IF s = "" THEN ""
    ELSE (IF Ch(s, 1) \in DOMAIN LowerMap THEN LowerMap[Ch(s, 1)] ELSE Ch(s, 1))
         \o str_lower(Tail(s))

RECURSIVE _fold(_)
_fold(s) ==
    IF s = "" THEN ""
    ELSE (IF Ch(s, 1) \in DOMAIN FoldMap THEN FoldMap[Ch(s, 1)] ELSE Ch(s, 1))
         \o _fold(Tail(s))

\* \s of the regular expressions and of str.strip()
IsSpace(c) == c = " "

\* \w of a str pattern at position k of text: letters (accented ones too),
\* digits and the underscore
IsWordAt(text, k) ==
    /\ k >= 1
    /\ k <= Len(text)
    /\ InStr(Ch(text, k), LowerLetters \o UpperLetters \o Digits
                          \o Accented.lower \o Accented.upper \o "_")

\* \b between positions p-1 and p of text (p in 1..Len(text)+1)
WordBoundary(text, p) == IsWordAt(text, p - 1) # IsWordAt(text, p)

RECURSIVE lstrip(_)
lstrip(s) == IF s # "" /\ IsSpace(Ch(s, 1)) THEN lstrip(Tail(s)) ELSE s

\* str.strip()
strip(s) ==
    LET RECURSIVE rstrip(_)
        rstrip(t) ==
            IF t # "" /\ IsSpace(Ch(t, Len(t))) THEN rstrip(SubSeq(t, 1, Len(t) - 1))
            ELSE t
    IN  rstrip(lstrip(s))

\* needle in haystack, for two str
Contains(haystack, needle) ==
    \E i \in 1..(Len(haystack) - Len(needle) + 1) :
        SubSeq(haystack, i, i + Len(needle) - 1) = needle

\* the first index at or after i at which needle starts in s, 0 when there is none
RECURSIVE FindFrom(_, _, _)
FindFrom(s, needle, i) ==
    IF i + Len(needle) - 1 > Len(s) THEN 0
    ELSE IF SubSeq(s, i, i + Len(needle) - 1) = needle THEN i
    ELSE FindFrom(s, needle, i + 1)

\* str.replace(old, ""), old not empty
RECURSIVE RemoveAll(_, _)
RemoveAll(s, old) ==
    LET \* the replacement once the first occurrence is known to start at p
        At(p) ==
            IF p = 0 THEN s
            ELSE SubSeq(s, 1, p - 1) \o RemoveAll(SubSeq(s, p + Len(old), Len(s)), old)
    IN  At(FindFrom(s, old, 1))

\* the least element of a set of positive integers, 0 for the empty set
FirstOf(hits) == IF hits = {} THEN 0 ELSE CHOOSE k \in hits : \A h \in hits : k <= h

RECURSIVE SkipSpaces(_, _)
SkipSpaces(text, i) ==
    IF i <= Len(text) /\ IsSpace(Ch(text, i)) THEN SkipSpaces(text, i + 1) ELSE i

\* set(s.split()): the maximal runs of non-whitespace characters
WordSet(s) ==
    LET RECURSIVE From(_, _)
        From(i, cur) ==
            IF i > Len(s) THEN (IF cur = "" THEN {} ELSE {cur})
            ELSE IF IsSpace(Ch(s, i))
                 THEN (IF cur = "" THEN {} ELSE {cur}) \cup From(i + 1, "")
                 ELSE From(i + 1, cur \o Ch(s, i))
    IN  From(1, "")

\* s.split(sep) for a one-character sep, as the sequence of its parts
SplitOn(s, sep) ==
    LET RECURSIVE From(_, _)
        From(i, cur) ==
            IF i > Len(s) THEN <<cur>>
            ELSE IF Ch(s, i) = sep THEN <<cur>> \o From(i + 1, "")
                 ELSE From(i + 1, cur \o Ch(s, i))
    IN  From(1, "")

(***************************************************************************)
(* normalise_text (roe_common_functions.py)                                *)
(***************************************************************************)
\* The word list words_to_ignore_in_names.txt as load_tokens returns it:
\* lower-cased and sorted longest first.
TOKENS_TO_REMOVE == <<"ltd", "sa">>

\* re.sub(pattern, ' ' + letters, text) for the pattern of an acronym:
\* \b l1 \s*\.?\s* l2 ... \b
AcronymSub(text, letters) ==
    LET \* \.? matched at position a: the position after it
        SkipDot(a) == IF a <= Len(text) /\ Ch(text, a) = "." THEN a + 1 ELSE a
        \* \s*\.?\s* matched greedily from position i: the position after it
        SkipSeparator(i) == SkipSpaces(text, SkipDot(SkipSpaces(text, i)))
        RECURSIVE Rest(_, _), SubFrom(_)
        \* the next letter of the pattern matched at position j, then the rest
        LetterAt(j, ls) ==
            IF j <= Len(text) /\ Ch(text, j) = Ch(ls, 1) THEN Rest(j + 1, Tail(ls)) ELSE 0
        \* the letters ls, each behind \s*\.?\s*, matched from position i:
        \* the index of the last character matched, 0 if none
        Rest(i, ls) == IF ls = "" THEN i - 1 ELSE LetterAt(SkipSeparator(i), ls)
        \* the closing \b after a match ending at e
        EndAtBoundary(e) == IF e > 0 /\ WordBoundary(text, e + 1) THEN e ELSE 0
        \* the pattern matched at position i: index of its last character, or 0
        MatchAt(i) ==
            IF WordBoundary(text, i) /\ Ch(text, i) = Ch(letters, 1)
            THEN EndAtBoundary(Rest(i + 1, Tail(letters)))
            ELSE 0
        \* the substitution at position i, where the pattern matches up to e
        SubAt(i, e) ==
            IF e > 0 THEN (" " \o letters) \o SubFrom(e + 1)
            ELSE Ch(text, i) \o SubFrom(i + 1)
        SubFrom(i) == IF i > Len(text) THEN "" ELSE SubAt(i, MatchAt(i))
    IN  SubFrom(1)

\* re.sub(r'[^a-z0-9\s]+', '', text)
RECURSIVE RemovePunctuation(_)
RemovePunctuation(text) ==
    IF text = "" THEN ""
    ELSE (IF InStr(Ch(text, 1), LowerLetters \o Digits) \/ IsSpace(Ch(text, 1))
          THEN Ch(text, 1) ELSE "")
         \o RemovePunctuation(Tail(text))

\* NORMALIZATION_PATTERN.sub('', text): \b(?:token|token|...)\b
RemoveTokens(text) ==
    LET \* token t matches at position i between two word boundaries
        MatchesAt(i, t) ==
            /\ i + Len(t) - 1 <= Len(text)
            /\ SubSeq(text, i, i + Len(t) - 1) = t
            /\ WordBoundary(text, i)
            /\ WordBoundary(text, i + Len(t))
        \* the length of the k-th alternative, 0 for k = 0
        TokenLen(k) == IF k = 0 THEN 0 ELSE Len(TOKENS_TO_REMOVE[k])
        \* the length of the first alternative (tokens are tried in list
        \* order) that matches at position i, 0 if none does
        MatchLen(i) ==
            TokenLen(FirstOf(
                {k \in 1..Len(TOKENS_TO_REMOVE) : MatchesAt(i, TOKENS_TO_REMOVE[k])}))
        RECURSIVE From(_)
        \* the substitution at position i, where an alternative of length n matches
        At(i, n) == IF n > 0 THEN From(i + n) ELSE Ch(text, i) \o From(i + 1)
        From(i) == IF i > Len(text) THEN "" ELSE At(i, MatchLen(i))
    IN  From(1)

\* WHITESPACE_PATTERN.sub('', text)
RECURSIVE RemoveWhitespace(_)
RemoveWhitespace(text) ==
    IF text = "" THEN ""
    ELSE (IF IsSpace(Ch(text, 1)) THEN "" ELSE Ch(text, 1)) \o RemoveWhitespace(Tail(text))

\* normalise_text on a str
normalise_str(text) ==
    strip(RemoveWhitespace(RemoveTokens(RemovePunctuation(
        AcronymSub(AcronymSub(AcronymSub(AcronymSub(_fold(str_lower(text)),
            "sarl"), "spa"), "bv"), "gmbh")))))

\* None
PyNone == "<None>"

(***************************************************************************)
(* The registry: search items, pages and responses                         *)
(***************************************************************************)
ROE == "registered-overseas-entity"

OVERSEA == "oversea-company"

\* items_per_page of get_company_details
items_per_page == 100

\* search requests one get_company_details call may send in the model
MaxRequests == 2

\* get_company_details calls in one run of the model
MaxCalls == 2

\* The search items the modelled registry can return.
SearchItems ==
    LET SearchItem(type, title, number, snip) ==
            [company_type |-> type, title |-> title, company_number |-> number,
             address_snippet |-> "addr " \o number, company_status |-> "active",
             snippet |-> snip]
    IN  { SearchItem(ROE, "AB LTD", "OE1", ""),
          SearchItem(OVERSEA, "Ab", "FC2", ""),
          SearchItem("ltd", "Ab Ltd", "03", "AB"),
          SearchItem(ROE, "Zed", "OE4", "Old · Ab Ltd"),
          SearchItem(ROE, "Ltd", "OE5", ""),
          SearchItem(ROE, "Ab Ab", "OE6", "") }

\* the raw proprietor names resolved in the model
QueryNames == {"Ab Ltd", "AB", "S.A."}

\* The rows of the table: the four proprietor names of each (None, blank
\* or a name).  The names are spellings of one company, so that a run asks
\* the registry once and serves the other proprietors from BO_cache.
Rows == {<<"Ab Ltd", PyNone, "  ", "AB">>, <<"AB", "", "Ab Ltd", PyNone>>}

\* Names in the reference files of the classification engine: a listed
\* company, a government-owned company and two manual exclusions.
ListedCompanyNames == {"Cafe Bank Ltd"}

GovernmentOwnedNames == {"Oman Oil SA"}

ManualExclusionNames == {"Zed Trust Ltd", "Cafe Bank"}

\* the names of the controllers classified in the model
ControllerNames == {PyNone, "CAFÉ BANK LTD", "Oman Oil", "Zed Trust", "Acme Ltd"}

\* the names of the proprietors and of their individual controllers
OwnerNames == {"Cafe Bank Ltd", "Acme Ltd", "Zed Trust", "Ann Lee"}

\* the registration fields of the legal forms in the model
RegistrationTexts == {"Englnd and Wales", "Jersey law", "Jersey"}

\* The strings normalise_text is applied to in the model, each with its
\* normal form: normalise_str is evaluated once per string.
NormalForms ==
    LET \* the parts of a snippet between the middle dots, stripped
        SnippetParts(parts) == {strip(parts[n]) : n \in 1..Len(parts)}
        known == QueryNames \cup {it.title : it \in SearchItems}
                 \cup {r[i] : r \in Rows, i \in 1..4}
                 \cup UNION {SnippetParts(SplitOn(it.snippet, "·")) : it \in SearchItems}
                 \cup ListedCompanyNames \cup GovernmentOwnedNames
                 \cup ManualExclusionNames \cup (ControllerNames \ {PyNone})
                 \cup OwnerNames
    IN  {<<s, normalise_str(s)>> : s \in known}

\* normalise_text: '' for a value that is not a str (None)
normalise_text(text) ==
    IF text = PyNone THEN ""
    ELSE IF \E p \in NormalForms : p[1] = text
         THEN (CHOOSE p \in NormalForms : p[1] = text)[2]
         ELSE normalise_str(text)

\* _token_set
_token_set(text) == WordSet(normalise_text(text))

\* A search page: its distinguished items in order (up to two different
\* items), and a count of further items that are of no overseas type and
\* carry no snippet.  A full page holds items_per_page items.
SearchPages ==
    LET ItemSeqs == {<<>>} \cup {<<a>> : a \in SearchItems}
                           \cup {p \in SearchItems \X SearchItems : p[1] # p[2]}
    IN  {[items |-> its, filler |-> f] : its \in ItemSeqs, f \in {0}} \cup
        {[items |-> its, filler |-> items_per_page - Len(its)] : its \in ItemSeqs}

\* the status standing for requests.get raising instead of answering
RequestException == 0

\* What one requests.get of the search can produce: a status code (with a
\* page for 200) or an exception.
SearchResponses ==
    {[status |-> 200, page |-> p] : p \in SearchPages} \cup
    {[status |-> c] : c \in {404, 403, 416, 502, 500}} \cup
    {[status |-> 429, retry_after |-> h] : h \in {"absent", "10", "not a number"}} \cup
    {[status |-> RequestException]}

NegativeResult == <<PyNone, PyNone, PyNone, PyNone>>

ItemResult(it) == <<it.title, it.company_number, it.address_snippet, it.company_status>>

(***************************************************************************)
(* The state of a run                                                      *)
(***************************************************************************)
VARIABLES
    proprietor_cache,   \* the module-level dict: normalised name -> result tuple
    gcd_pc,             \* "idle", "loop" (inside the while True) or "raised"
    gcd,                \* the locals of the running get_company_details call
    search_requests,    \* requests.get calls of the search sent so far in the run
    throttle_calls,     \* throttle_requests calls made so far in the run
    ncalls,             \* get_company_details calls that have returned
    first_call,         \* per raw name: the first completed call, or NoCall
    last_call           \* the call that returned last, or NoCall

resolver_vars ==
    <<proprietor_cache, gcd_pc, gcd, search_requests, throttle_calls, ncalls,
      first_call, last_call>>

VARIABLES
    companies_house_rate_limit,   \* the setting: requests allowed per period
    companies_house_rate_period,  \* the setting: the period, in clock ticks
    clock,              \* what time.time() returns now, in ticks
    request_times,      \* the module-level deque of recent request timestamps
    recorded,           \* every timestamp appended to request_times so far
    throttle_pc,        \* "idle", or "send" between throttle_requests and requests.get
    blocked_on          \* request_times[0] when the last call slept, else NotBlocked

throttle_vars ==
    <<companies_house_rate_limit, companies_house_rate_period, clock, request_times,
      recorded, throttle_pc, blocked_on>>

VARIABLES
    BO_cache,           \* the module-level dict: normalised name -> find_BOs_for_company result
    rows_done,          \* rows of the table process_all_records has updated
    row,                \* the proprietor names of the row being processed
    prop_i,             \* the proprietor the loop is at (1..4), 5 after the loop, 0 between rows
    update,             \* the update dict of the row, one entry per proprietor done
    bo_found,           \* per proprietor done: what find_BOs_for_company returned
    row_status          \* update['status'] once it is set

records_vars ==
    <<BO_cache, rows_done, row, prop_i, update, bo_found, row_status>>

VARIABLES
    bo_row,             \* the row handed to process_bo_status, or NoRow
    bo_result           \* what process_bo_status returned or raised, once it has

classify_vars == <<bo_row, bo_result>>

VARIABLES
    norm_text,          \* the text handed to normalise_text: a name and a suffix
    norm_calls          \* what normalise_text returned, applied again to its result

normalise_vars == <<norm_text, norm_calls>>

VARIABLES
    fetch_pc,           \* "idle", "loop" (top of the while True), "send" (throttle_requests
                        \* has returned, requests.get is next) or "returned"
    fetch               \* the running or last call of get_company_profile or get_BO_list

registry_vars == <<fetch_pc, fetch>>

VARIABLES
    entities,           \* the entities table as committed: per rowid the row read by
                        \* process_bo_status and its reg_status columns
    txn,                \* the transaction of conn: open or not, and the table with the
                        \* UPDATEs executed in it
    settings,           \* CHUNK_SIZE, FLUSH_BATCH and USE_WAL of the run
    pool,               \* the batches of _chunk_generator, those no worker has finished
                        \* and the results in order of completion
    main,               \* the locals of main in the parallel branch
    last_flush          \* pending_updates as the last flush_pending found it

parallel_vars == <<entities, txn, settings, pool, main, last_flush>>

VARIABLES
    db,                 \* the entities table as committed: per rowid the row, a value
                        \* for each column
    run                 \* process_all_records: its settings, the rows fetched, the row
                        \* the loop is at, the UPDATE not yet committed and the locals
                        \* of commit_with_retry

run_vars == <<db, run>>

VARIABLE
    address_call        \* a call of pick_company_address in find_BOs_for_company: the
                        \* profile, the snippet and, once it has returned, chosen_addr

vars ==
    <<resolver_vars, throttle_vars, records_vars, classify_vars, normalise_vars,
      registry_vars, parallel_vars, run_vars, address_call>>

(***************************************************************************)
(* throttle_requests (roe_2_find_BOs.py)                                   *)
(*                                                                         *)
(* Time is counted in ticks of the clock time.time() reads.  A call reads  *)
(* the clock, evicts, sleeps when the deque is full and reads the clock    *)
(* again for the timestamp it records; time.sleep returns no earlier than  *)
(* asked.  Every call is followed by the requests.get it throttles, which  *)
(* takes at least one tick.                                                *)
(***************************************************************************)
\* largest companies_house_rate_limit of the model
MaxRateLimit == 2

\* largest companies_house_rate_period of the model
MaxRatePeriod == 3

\* throttle_requests calls in one run of the model
MaxThrottleCalls == 4

\* most ticks by which the second clock reading of a call is late
MaxLate == 1

\* most ticks between the end of a call and the next call
MaxRequestTime == 2

\* blocked_on of a call that did not sleep
NotBlocked == -1

\* sleep_time taken as the age of the oldest timestamp
sleep_time_Elapsed(now, times) == now - times[1]

\* sleep_time = companies_house_rate_period - (now - request_times[0])
sleep_time(now, times) == companies_house_rate_period - (now - times[1])

\* throttle_requests()
throttle_requests(late) ==
    LET \* while request_times and request_times[0] < window_start: popleft()
        RECURSIVE PopExpired(_, _)
        PopExpired(times, window_start) ==
            IF times # <<>> /\ times[1] < window_start
            THEN PopExpired(Tail(times), window_start)
            ELSE times
        \* the second time.time() of the call, which read now first and
        \* evicted down to times
        Stamp(times, now) ==
            IF Len(times) >= companies_house_rate_limit
            THEN now + sleep_time(now, times) + late
            ELSE now + late
        \* the call after the eviction left times in the deque
        Record(times) ==
            /\ blocked_on' = IF Len(times) >= companies_house_rate_limit THEN times[1]
                             ELSE NotBlocked
            /\ request_times' = Append(times, Stamp(times, clock))
            /\ recorded' = Append(recorded, Stamp(times, clock))
            /\ clock' = Stamp(times, clock)
    IN  /\ throttle_pc = "idle"
        /\ Len(recorded) < MaxThrottleCalls
        /\ Record(PopExpired(request_times, clock - companies_house_rate_period))
        /\ throttle_pc' = "send"
        /\ UNCHANGED <<companies_house_rate_limit, companies_house_rate_period,
                       resolver_vars, records_vars, classify_vars, normalise_vars,
                       registry_vars, parallel_vars, run_vars, address_call>>

\* the requests.get a throttle_requests call precedes, and the time to the next call
SendRequest(d) ==
    /\ throttle_pc = "send"
    /\ clock' = clock + d
    /\ throttle_pc' = "idle"
    /\ UNCHANGED <<companies_house_rate_limit, companies_house_rate_period,
                   request_times, recorded, blocked_on, resolver_vars, records_vars, classify_vars,
                   normalise_vars, registry_vars, parallel_vars, run_vars, address_call>>

\* the limiter of a run in which its settings and the clock play no part
ThrottleUnused ==
    /\ companies_house_rate_limit = 1
    /\ companies_house_rate_period = 1
    /\ clock = 0
    /\ request_times = <<>>
    /\ recorded = <<>>
    /\ throttle_pc = "idle"
    /\ blocked_on = NotBlocked

\* the limiter at the start of a run, for every setting of the model
ThrottleInit ==
    /\ companies_house_rate_limit \in 1..MaxRateLimit
    /\ companies_house_rate_period \in 1..MaxRatePeriod
    /\ clock = 0
    /\ request_times = <<>>
    /\ recorded = <<>>
    /\ throttle_pc = "idle"
    /\ blocked_on = NotBlocked

(***************************************************************************)
(* get_company_details (roe_2_find_BOs.py)                                 *)
(***************************************************************************)
NoCall == [name |-> PyNone]

NoLocals == [company_name |-> PyNone]

\* strong_oversea = None
NoItem == [company_type |-> PyNone]

\* the name tests shared by is_strong_roe and is_strong_oversea, for an item
\* of the right type called type_name in the reason
StrongByName(norm_title, title_tokens, norm_query, type_name) ==
    IF norm_title = norm_query THEN <<TRUE, "exact name + " \o type_name>>
    ELSE IF title_tokens = WordSet(norm_query) /\ norm_query # ""
         THEN <<TRUE, "token-set equal + " \o type_name>>
         ELSE <<FALSE, "">>

\* is_strong_roe: <<ok, reason>>
is_strong_roe(item, norm_query) ==
    IF item.company_type # ROE THEN <<FALSE, "">>
    ELSE StrongByName(normalise_text(item.title), _token_set(item.title), norm_query, "ROE")

\* is_strong_oversea: <<ok, reason>>
is_strong_oversea(item, norm_query) ==
    IF item.company_type # OVERSEA THEN <<FALSE, "">>
    ELSE StrongByName(normalise_text(item.title), _token_set(item.title), norm_query,
                      "oversea-company")

\* the second loop over page_items: <<strong_oversea, strong_oversea_reason>>
\* after it
ScanOversea(items, norm_query, strong_oversea, strong_oversea_reason) ==
    LET RECURSIVE From(_, _, _)
        \* one pass: r is is_strong_oversea of item k
        Item(k, so, reason, r) ==
            IF r[1] /\ (so = NoItem
                        \/ (IF Contains(r[2], "exact name") THEN 1 ELSE 0)
                           > (IF SubSeq(reason, 1, 5) = "exact" THEN 1 ELSE 0))
            THEN From(k + 1, items[k], r[2])
            ELSE From(k + 1, so, reason)
        From(k, so, reason) ==
            IF k > Len(items) THEN <<so, reason>>
            ELSE Item(k, so, reason, is_strong_oversea(items[k], norm_query))
    IN  From(1, strong_oversea, strong_oversea_reason)

allowed_types == {ROE, OVERSEA}

\* FormerNameResult without the test of the item's type
FormerNameResult_AnyType(first_page_items, norm_query) ==
    LET AnyPartMatches(parts) ==
            \E n \in 1..Len(parts) : norm_query = normalise_text(strip(parts[n]))
        SnippetMatches(item) ==
            item.snippet # "" /\ AnyPartMatches(SplitOn(item.snippet, "·"))
        Hit(k) == IF k = 0 THEN NegativeResult ELSE ItemResult(first_page_items[k])
    IN  Hit(FirstOf({k \in 1..Len(first_page_items) :
                        SnippetMatches(first_page_items[k])}))

\* the former-name loop over first_page_items: the result it returns, or
\* NegativeResult when it falls through
FormerNameResult(first_page_items, norm_query) ==
    LET \* some of the parts normalises to the query
        AnyPartMatches(parts) ==
            \E n \in 1..Len(parts) : norm_query = normalise_text(strip(parts[n]))
        \* some part of the snippet, split on the middle dot, does
        SnippetMatches(item) ==
            item.snippet # "" /\ AnyPartMatches(SplitOn(item.snippet, "·"))
        \* the result when item k is the first hit (0: none)
        Hit(k) == IF k = 0 THEN NegativeResult ELSE ItemResult(first_page_items[k])
    IN  Hit(FirstOf({k \in 1..Len(first_page_items) :
                        /\ SnippetMatches(first_page_items[k])
                        /\ first_page_items[k].company_type \in allowed_types}))

\* the code after the while loop (lines 329-371): the result returned
FallbackResult(l) ==
    IF l.strong_oversea # NoItem THEN ItemResult(l.strong_oversea)
    ELSE FormerNameResult(l.first_page_items, l.norm_query)

\* One pass of the while loop after requests.get produced resp.  The value
\* is [how, result, l]: how is "return", "continue" (loop again) or "raise".
SearchStep(l, resp) ==
    LET \* the first loop over page_items: the index of the first strong ROE,
        \* 0 if none
        FirstStrongRoe(items) ==
            FirstOf({k \in 1..Len(items) : is_strong_roe(items[k], l.norm_query)[1]})
        \* the end of a pass without a strong ROE: l2 is the locals after
        \* the scan for a strong oversea company
        NoRoe(l2) ==
            IF Len(resp.page.items) + resp.page.filler < items_per_page
            THEN [how |-> "return", result |-> FallbackResult(l2), l |-> l2]
            ELSE [how |-> "continue", result |-> NegativeResult,
                  l |-> [l2 EXCEPT !.start_index = l2.start_index + items_per_page]]
        \* a pass over a 200 page: l1 has first_page_items set, roe is the
        \* index of the first strong ROE, so the outcome of ScanOversea
        Page(l1, roe, so) ==
            IF roe > 0
            THEN [how |-> "return", result |-> ItemResult(resp.page.items[roe]), l |-> l1]
            ELSE NoRoe([l1 EXCEPT !.strong_oversea = so[1],
                                  !.strong_oversea_reason = so[2]])
    IN  IF resp.status = 200 THEN
            Page([l EXCEPT !.first_page_items =
                        IF l.start_index = 0 THEN resp.page.items ELSE @],
                 FirstStrongRoe(resp.page.items),
                 ScanOversea(resp.page.items, l.norm_query, l.strong_oversea,
                             l.strong_oversea_reason))
        ELSE IF resp.status = 416 THEN
            [how |-> "return", result |-> FallbackResult(l), l |-> l]
        ELSE IF resp.status = 404 THEN
            [how |-> "return", result |-> NegativeResult, l |-> l]
        ELSE IF resp.status = 429 /\ resp.retry_after = "not a number" THEN
            \* int() of the header raises ValueError outside any try
            [how |-> "raise", result |-> NegativeResult, l |-> l]
        ELSE \* an exception of requests.get, 502, 429, any other status: retry
            [how |-> "continue", result |-> NegativeResult, l |-> l]

\* CacheStore with a negative result left out of the cache
CacheStore_PositiveOnly(cache, key, result) ==
    IF result = NegativeResult THEN cache
    ELSE [k \in DOMAIN cache \cup {key} |-> IF k = key THEN result ELSE cache[k]]

\* CacheStore that leaves the empty key out of the cache
CacheStore_SkipEmptyKey(cache, key, result) ==
    IF key = "" THEN cache
    ELSE [k \in DOMAIN cache \cup {key} |-> IF k = key THEN result ELSE cache[k]]

\* proprietor_cache[norm_query] = result
CacheStore(cache, key, result) ==
    [k \in DOMAIN cache \cup {key} |-> IF k = key THEN result ELSE cache[k]]

\* bookkeeping of a call of name that returns result after sending n requests
Returned(name, result, n) ==
    /\ last_call' = [name |-> name, result |-> result, requests |-> n,
                     repeat |-> first_call[name] # NoCall]
    /\ first_call' = IF first_call[name] = NoCall
                     THEN [first_call EXCEPT ![name] =
                              [name |-> name, result |-> result, requests |-> n]]
                     ELSE first_call
    /\ ncalls' = ncalls + 1

\* get_company_details(company_name) up to the while loop: a cache hit
\* returns at once, a miss enters the loop
GcdCall(company_name) ==
    LET Enter(norm_query) ==
            IF norm_query \in DOMAIN proprietor_cache
            THEN /\ Returned(company_name, proprietor_cache[norm_query], 0)
                 /\ UNCHANGED <<proprietor_cache, gcd_pc, gcd, search_requests,
                                throttle_calls>>
            ELSE /\ gcd' = [company_name |-> company_name, norm_query |-> norm_query,
                            start_index |-> 0, strong_oversea |-> NoItem,
                            strong_oversea_reason |-> "", first_page_items |-> <<>>,
                            requests |-> 0]
                 /\ gcd_pc' = "loop"
                 /\ UNCHANGED <<proprietor_cache, search_requests, throttle_calls, ncalls,
                                first_call, last_call>>
    IN  /\ gcd_pc = "idle"
        /\ ncalls < MaxCalls
        /\ Enter(normalise_text(company_name))
        /\ UNCHANGED <<throttle_vars, records_vars, classify_vars, normalise_vars, registry_vars,
                   parallel_vars, run_vars, address_call>>

\* one pass of the while loop: throttle, send the search, act on the response
GcdIterate(resp) ==
    LET \* the end of the pass, step being the value of SearchStep and n the
        \* number of requests the call has sent
        Act(step, n) ==
            CASE step.how = "return" ->
                    /\ proprietor_cache' =
                            CacheStore(proprietor_cache, gcd.norm_query, step.result)
                    /\ Returned(gcd.company_name, step.result, n)
                    /\ gcd' = NoLocals
                    /\ gcd_pc' = "idle"
              [] step.how = "continue" ->
                    /\ gcd' = [step.l EXCEPT !.requests = n]
                    /\ UNCHANGED <<proprietor_cache, gcd_pc, ncalls, first_call, last_call>>
              [] step.how = "raise" ->
                    /\ gcd' = [step.l EXCEPT !.requests = n]
                    /\ gcd_pc' = "raised"
                    /\ UNCHANGED <<proprietor_cache, ncalls, first_call, last_call>>
    IN  /\ gcd_pc = "loop"
        /\ gcd.requests < MaxRequests
        /\ throttle_calls' = throttle_calls + 1
        /\ search_requests' = search_requests + 1
        /\ Act(SearchStep(gcd, resp), gcd.requests + 1)
        /\ UNCHANGED <<throttle_vars, records_vars, classify_vars, normalise_vars, registry_vars,
                   parallel_vars, run_vars, address_call>>

(***************************************************************************)
(* Controllers, find_BOs_for_company and process_all_records               *)
(* (roe_2_find_BOs.py)                                                     *)
(***************************************************************************)
\* most items of a controller list of the model
MaxControllers == 5

\* rows one run of process_all_records updates in the model
MaxRows == 2

\* The values of a JSON field that holds null, a boolean, a number or a string.
PyNoneValue == [type |-> "NoneType"]

PyBool(b) == [type |-> "bool", bool |-> b]

PyInt(n) == [type |-> "int", int |-> n]

PyStr(s) == [type |-> "str", str |-> s]

\* is_ceased_beneficial_owner(bo)
is_ceased_beneficial_owner(bo) ==
    LET \* bool(value)
        Truthy(value) ==
            CASE value.type = "NoneType" -> FALSE
              [] value.type = "bool" -> value.bool
              [] value.type = "int" -> value.int # 0
              [] value.type = "str" -> value.str # ""
        \* the value judged: bo.get("ceased"), or when that is None
        \* bo.get("ceased_on") or bo.get("ceased_date")
        ceased ==
            IF bo.ceased.type # "NoneType" THEN bo.ceased
            ELSE IF Truthy(bo.ceased_on) THEN bo.ceased_on ELSE bo.ceased_date
        \* the strings not taken for a cessation
        false_like == {"", "0", "false", "no", "none", "null"}
        \* the tests on that value
        IsCeased(value) ==
            CASE value.type = "NoneType" -> FALSE
              [] value.type = "bool" -> value.bool
              [] value.type = "int" -> value.int # 0
              [] value.type = "str" -> str_lower(strip(value.str)) \notin false_like
    IN  IsCeased(ceased)

\* What the request of get_BO_list that ends its retry loop answers: an
\* error status, or a list of up to MaxControllers controllers of which
\* any may be ceased.
PscResponses ==
    LET \* the ceased fields of the controllers of one list: how its active
        \* items and how its ceased items carry them (in the third, a
        \* ceased item has the flag False and a cessation date)
        Markings ==
            { [active |-> [ceased |-> PyNoneValue, ceased_on |-> PyNoneValue,
                           ceased_date |-> PyNoneValue],
               ceased |-> [ceased |-> PyBool(TRUE), ceased_on |-> PyNoneValue,
                           ceased_date |-> PyNoneValue]],
              [active |-> [ceased |-> PyStr(" No "), ceased_on |-> PyNoneValue,
                           ceased_date |-> PyNoneValue],
               ceased |-> [ceased |-> PyNoneValue, ceased_on |-> PyStr(""),
                           ceased_date |-> PyStr("2021-06-30")]],
              [active |-> [ceased |-> PyNoneValue, ceased_on |-> PyNoneValue,
                           ceased_date |-> PyNoneValue],
               ceased |-> [ceased |-> PyBool(FALSE), ceased_on |-> PyStr("2021-06-30"),
                           ceased_date |-> PyNoneValue]] }
        \* the k-th item of a controller list, with the ceased fields of form
        Controller(k, form) ==
            [name |-> "BO " \o Ch(Digits, k + 1), kind |-> "individual-beneficial-owner",
             ceased |-> form.ceased, ceased_on |-> form.ceased_on,
             ceased_date |-> form.ceased_date]
        ControllerLists ==
            { [k \in 1..n |-> Controller(k, IF k \in C THEN m.ceased ELSE m.active)] :
                n \in 0..MaxControllers, C \in SUBSET (1..MaxControllers), m \in Markings }
    IN  {[status |-> 200, items |-> l] : l \in ControllerLists}
            \cup {[status |-> c] : c \in {404, 403}}

\* get_BO_list and bo_json.get('items') or []
get_BO_list(resp) == IF resp.status = 200 THEN resp.items ELSE <<>>

\* What get_company_details returns to find_BOs_for_company in the model.
CompanyDetails ==
    {NegativeResult} \cup
    {ItemResult(it) : it \in {x \in SearchItems : x.company_number \in {"OE1", "FC2"}}}

\* find_BOs_for_company past the cache, for what get_company_details and
\* get_BO_list return
find_BOs_for_company(details, items) ==
    IF details[2] = PyNone \/ details[2] = ""
    THEN [status |-> "No company found", bos |-> <<>>, comp_number |-> PyNone]
    ELSE IF items # <<>>
         THEN [status |-> "OK", bos |-> items, comp_number |-> details[2]]
         ELSE [status |-> "No BO", bos |-> <<>>, comp_number |-> details[2]]

\* active_bos built from the first four items only
ActiveBos_CapFirst(bos) ==
    SelectSeq(SubSeq(bos, 1, IF Len(bos) < 4 THEN Len(bos) ELSE 4),
              LAMBDA bo : ~is_ceased_beneficial_owner(bo))

\* active_bos with no item skipped
ActiveBos_All(bos) == bos

\* active_bos: the items of bos that are not ceased, in order
ActiveBos(bos) == SelectSeq(bos, LAMBDA bo : ~is_ceased_beneficial_owner(bo))

\* the fields of a BO slot after they are cleared
EmptySlot == [name |-> PyNone, kind |-> PyNone, ceased |-> PyNoneValue]

\* the fields of a BO slot written for bo
SlotOf(bo) == [name |-> bo.name, kind |-> bo.kind, ceased |-> bo.ceased]

\* the fields of a proprietor once they are cleared
ClearedFields ==
    [slots |-> [j \in 1..4 |-> EmptySlot], BO_failure |-> PyNone, number |-> PyNone]

\* the fields of a proprietor for which find_BOs_for_company returned found
FieldsFor(found) ==
    LET \* the four slots after the loop over active_bos[:4]
        SlotsOf(active_bos) ==
            [j \in 1..4 |-> IF j <= Len(active_bos) THEN SlotOf(active_bos[j])
                            ELSE EmptySlot]
    IN  [slots |-> IF found.status = "OK" THEN SlotsOf(ActiveBos(found.bos))
                   ELSE ClearedFields.slots,
         BO_failure |-> IF found.status = "OK" THEN PyNone ELSE found.status,
         number |-> found.comp_number]

\* bo_found of a proprietor without a name
NotLooked == [status |-> PyNone]

\* the loop moves on with the fields of proprietor prop_i set
ProprietorDone(fields, found) ==
    /\ update' = Append(update, fields)
    /\ bo_found' = Append(bo_found, found)
    /\ prop_i' = prop_i + 1
    /\ UNCHANGED <<rows_done, row, row_status>>

\* process_all_records takes the next row
StartRow(names) ==
    /\ prop_i = 0
    /\ rows_done < MaxRows
    /\ row' = names
    /\ prop_i' = 1
    /\ update' = <<>>
    /\ bo_found' = <<>>
    /\ row_status' = PyNone
    /\ UNCHANGED <<BO_cache, rows_done, resolver_vars, throttle_vars, classify_vars,
                   normalise_vars, registry_vars, parallel_vars, run_vars, address_call>>

\* prop and prop.strip()
HasName(prop) == prop # PyNone /\ strip(prop) # ""

\* one pass of the loop over the four proprietors, for a proprietor
\* without a name: its fields are cleared
ProprietorWithoutName ==
    /\ prop_i \in 1..4
    /\ ~HasName(row[prop_i])
    /\ ProprietorDone(ClearedFields, NotLooked)
    /\ UNCHANGED <<BO_cache, resolver_vars, throttle_vars, classify_vars, normalise_vars,
                   registry_vars, parallel_vars, run_vars, address_call>>

\* one pass of the loop, for a proprietor whose normalised name
\* find_BOs_for_company finds in BO_cache
ProprietorCached ==
    LET \* the fields written from what BO_cache holds under norm_key
        WriteCached(norm_key) ==
            /\ norm_key \in DOMAIN BO_cache
            /\ ProprietorDone(FieldsFor(BO_cache[norm_key]), BO_cache[norm_key])
    IN  /\ prop_i \in 1..4
        /\ HasName(row[prop_i])
        /\ WriteCached(normalise_text(row[prop_i]))
        /\ UNCHANGED <<BO_cache, resolver_vars, throttle_vars, classify_vars, normalise_vars,
                   registry_vars, parallel_vars, run_vars, address_call>>

\* ProprietorLookedUp without the look into BO_cache: the registry is asked
\* and the result stored whether or not the key is in the cache
ProprietorLookedUp_Always(details, resp) ==
    LET WriteFound(norm_key, found) ==
            /\ BO_cache' = CacheStore(BO_cache, norm_key, found)
            /\ ProprietorDone(FieldsFor(found), found)
    IN  /\ prop_i \in 1..4
        /\ HasName(row[prop_i])
        /\ WriteFound(normalise_text(row[prop_i]),
                      find_BOs_for_company(details, get_BO_list(resp)))
        /\ UNCHANGED <<resolver_vars, throttle_vars, classify_vars, normalise_vars, registry_vars,
                   parallel_vars, run_vars, address_call>>

\* one pass of the loop, for a proprietor find_BOs_for_company asks the
\* registry about: get_company_details returns details and the request of
\* get_BO_list is answered by resp
ProprietorLookedUp(details, resp) ==
    LET \* found is stored in BO_cache under norm_key and the fields written
        WriteFound(norm_key, found) ==
            /\ norm_key \notin DOMAIN BO_cache
            /\ BO_cache' = CacheStore(BO_cache, norm_key, found)
            /\ ProprietorDone(FieldsFor(found), found)
    IN  /\ prop_i \in 1..4
        /\ HasName(row[prop_i])
        /\ WriteFound(normalise_text(row[prop_i]),
                      find_BOs_for_company(details, get_BO_list(resp)))
        /\ UNCHANGED <<resolver_vars, throttle_vars, classify_vars, normalise_vars, registry_vars,
                   parallel_vars, run_vars, address_call>>

\* the row is marked and written
FinishRow ==
    /\ prop_i = 5
    /\ row_status' = "BOs added"
    /\ rows_done' = rows_done + 1
    /\ prop_i' = 0
    /\ UNCHANGED <<BO_cache, row, update, bo_found, resolver_vars, throttle_vars, classify_vars,
                   normalise_vars, registry_vars, parallel_vars, run_vars, address_call>>

\* no row taken yet
RecordsInit ==
    /\ BO_cache = [k \in {} |-> NotLooked]
    /\ rows_done = 0
    /\ row = <<>>
    /\ prop_i = 0
    /\ update = <<>>
    /\ bo_found = <<>>
    /\ row_status = PyNone

(***************************************************************************)
(* The classification engine (roe_5_categorise_BOs.py): matching           *)
(***************************************************************************)
\* proprietors of a row in the model (a row of the table has four)
MaxProprietors == 1

\* controller slots of a proprietor in the model (a proprietor has four)
MaxSlots == 2

\* fuzz.ratio(s, t) >= threshold: the ratio is 100 for two empty strings
\* and 200 * lcs / (len(s) + len(t)) otherwise, lcs being the length of the
\* longest common subsequence of s and t
ratio_at_least(s, t, threshold) ==
    LET Max(a, b) == IF a >= b THEN a ELSE b
        RECURSIVE LcsRow(_, _, _), LcsRows(_, _)
        \* one row of the table of lcs lengths: the row of character c
        \* against t, given the row before; cur holds its columns 0..Len(cur)-1
        LcsRow(c, prev, cur) ==
            IF Len(cur) > Len(t) THEN cur
            ELSE LcsRow(c, prev,
                        Append(cur, IF c = Ch(t, Len(cur)) THEN prev[Len(cur)] + 1
                                    ELSE Max(prev[Len(cur) + 1], cur[Len(cur)])))
        \* the last entry of the table for the rest of s, given the row before
        LcsRows(rest, prev) ==
            IF rest = "" THEN prev[Len(t) + 1]
            ELSE LcsRows(Tail(rest), LcsRow(Ch(rest, 1), prev, <<0>>))
    IN  IF Len(s) + Len(t) = 0 THEN threshold <= 100
        ELSE 200 * LcsRows(s, [k \in 1..(Len(t) + 1) |-> 0])
             >= threshold * (Len(s) + Len(t))

\* process.extractOne(query, choices, scorer=fuzz.ratio, score_cutoff) is not None
extractOne(query, choices, score_cutoff) ==
    \E choice \in choices : ratio_at_least(query, choice, score_cutoff)

\* The reference data as init_reference_data loads it: every name normalised.
all_listed_companies == {normalise_text(name) : name \in ListedCompanyNames}

normalised_government_companies == {normalise_text(name) : name \in GovernmentOwnedNames}

manual_exclusions == {normalise_text(name) : name \in ManualExclusionNames}

\* not value, for a column that holds None or a str
Blank(value) == value = PyNone \/ value = ""

\* is_listed_company with the raw name as the query
is_listed_company_Raw(company_name) ==
    /\ ~Blank(company_name)
    /\ extractOne(company_name, all_listed_companies, 95)

\* is_listed_company
is_listed_company(company_name) ==
    /\ ~Blank(company_name)
    /\ extractOne(normalise_text(company_name), all_listed_companies, 95)

\* is_it_excluded
is_it_excluded(company_name) == normalise_text(company_name) \in manual_exclusions

\* is_government_owned
is_government_owned(company_name) ==
    LET \* the "dumb check", on company_name.lower()
        GovernmentWords(lowered) ==
            \/ Contains(lowered, "government")
            \/ Contains(lowered, "central bank")
            \/ Contains(lowered, "investment authority")
    IN  /\ ~Blank(company_name)
        /\ \/ GovernmentWords(str_lower(company_name))
           \/ extractOne(normalise_text(company_name), normalised_government_companies, 95)

uk_terms ==
    << "uk", "england", "english", "scotland", "wales", "northern ireland",
       "united kingdom", "england and wales", "england & wales",
       "united kingdom (england and wales)", "uk and wales", "united kingdom england",
       "u.k", "england, uk", "scotland united kingdom", "gbeng", "gbsct",
       "great britain", "united kingdom (scotland)", "london", "gbr", "cardiff", "e&w",
       "england, united kingdom", "britain", "uk/england", "cardiff, wales",
       "uk/scotland", "gb", "companies house", "n. ireland", "edinburgh",
       "uk, yorkshire", "companies house - registrar of companies",
       "northern ireland, united kingdom", "london, england", "belfast", "eng", "u k",
       "england and wales, england", "west yorkshire", "english law" >>

\* country.lower().replace("registered in", "").strip()
UkCandidate(country) == strip(RemoveAll(str_lower(country), "registered in"))

\* the loop of is_uk_a_fuzzy_match over uk_terms
AnyUkTerm(normalised, threshold) ==
    \E n \in 1..Len(uk_terms) : ratio_at_least(normalised, uk_terms[n], threshold)

\* The registration fields is_uk_a_fuzzy_match is applied to in the model,
\* each with its answer: the loop over uk_terms runs once per string.
UkMatches == {<<c, AnyUkTerm(UkCandidate(c), 85)>> : c \in RegistrationTexts}

\* is_uk_a_fuzzy_match, with the default threshold
is_uk_a_fuzzy_match(country) ==
    IF \E p \in UkMatches : p[1] = country
    THEN (CHOOSE p \in UkMatches : p[1] = country)[2]
    ELSE AnyUkTerm(UkCandidate(country), 85)

(***************************************************************************)
(* Parsing: json.loads, ast.literal_eval and float on the texts of a row   *)
(***************************************************************************)
\* The values of a parsed text are the Py values above, a list
\* [type |-> "list", items] and a dict [type |-> "dict", members].
PyList(items) == [type |-> "list", items |-> items]

PyDict(members) == [type |-> "dict", members |-> members]

ParseFail == [ok |-> FALSE]

Parsed(val, next, names) == [ok |-> TRUE, val |-> val, next |-> next, names |-> names]

\* s[i:].startswith(word)
StartsAt(s, i, word) ==
    i + Len(word) - 1 <= Len(s) /\ SubSeq(s, i, i + Len(word) - 1) = word

\* the position after the digits that start at position i
RECURSIVE DigitsEnd(_, _)
DigitsEnd(s, i) ==
    IF i <= Len(s) /\ InStr(Ch(s, i), Digits) THEN DigitsEnd(s, i + 1) ELSE i

\* int(digits) for a string of digits
RECURSIVE IntOf(_)
IntOf(digits) ==
    IF digits = "" THEN 0
    ELSE 10 * IntOf(SubSeq(digits, 1, Len(digits) - 1))
         + IndexIn(Ch(digits, Len(digits)), Digits) - 1

\* a string literal opened at position i and closed at position e (0: never)
StringLiteral(s, i, e) ==
    IF e = 0 THEN ParseFail ELSE Parsed(PyStr(SubSeq(s, i + 1, e - 1)), e + 1, FALSE)

\* a number literal from position i to before position e
NumberLiteral(s, i, e) == Parsed(PyInt(IntOf(SubSeq(s, i, e - 1))), e, FALSE)

\* json.loads: ok is FALSE where it raises JSONDecodeError
json_loads(s) ==
    LET RECURSIVE Value(_), Members(_, _), Items(_, _)
        \* after the members read so far: a comma and more members, or the
        \* closing brace
        MemberSep(k, members) ==
            IF k > Len(s) THEN ParseFail
            ELSE IF Ch(s, k) = "}" THEN Parsed(PyDict(members), k + 1, FALSE)
            ELSE IF Ch(s, k) = "," THEN Members(SkipSpaces(s, k + 1), members)
            ELSE ParseFail
        \* the member key: v joins the members; a repeated key keeps the
        \* later value
        AfterMember(key, v, members) ==
            IF ~v.ok THEN ParseFail
            ELSE MemberSep(SkipSpaces(s, v.next), (key :> v.val) @@ members)
        \* the colon and the value of the member key, from position c
        Colon(key, c, members) ==
            IF c <= Len(s) /\ Ch(s, c) = ":"
            THEN AfterMember(key, Value(SkipSpaces(s, c + 1)), members)
            ELSE ParseFail
        \* a member whose key opens at position k and closes at position e
        MemberAt(k, e, members) ==
            IF e = 0 THEN ParseFail
            ELSE Colon(SubSeq(s, k + 1, e - 1), SkipSpaces(s, e + 1), members)
        Members(k, members) ==
            IF k <= Len(s) /\ Ch(s, k) = "\""
            THEN MemberAt(k, FindFrom(s, "\"", k + 1), members)
            ELSE ParseFail
        \* an object, from the position after its opening brace
        Object(k) ==
            IF k <= Len(s) /\ Ch(s, k) = "}"
            THEN Parsed(PyDict([key \in {} |-> PyNoneValue]), k + 1, FALSE)
            ELSE Members(k, [key \in {} |-> PyNoneValue])
        \* after the items read so far: a comma and more items, or the
        \* closing bracket
        ItemSep(k, items) ==
            IF k > Len(s) THEN ParseFail
            ELSE IF Ch(s, k) = "]" THEN Parsed(PyList(items), k + 1, FALSE)
            ELSE IF Ch(s, k) = "," THEN Items(SkipSpaces(s, k + 1), items)
            ELSE ParseFail
        AfterItem(v, items) ==
            IF ~v.ok THEN ParseFail
            ELSE ItemSep(SkipSpaces(s, v.next), Append(items, v.val))
        Items(k, items) == AfterItem(Value(k), items)
        \* an array, from the position after its opening bracket
        Array(k) ==
            IF k <= Len(s) /\ Ch(s, k) = "]" THEN Parsed(PyList(<<>>), k + 1, FALSE)
            ELSE Items(k, <<>>)
        \* a JSON value at position i: an object, an array, a string without
        \* escapes, a whole number, null, true or false
        Value(i) ==
            IF i > Len(s) THEN ParseFail
            ELSE IF Ch(s, i) = "{" THEN Object(SkipSpaces(s, i + 1))
            ELSE IF Ch(s, i) = "[" THEN Array(SkipSpaces(s, i + 1))
            ELSE IF Ch(s, i) = "\"" THEN StringLiteral(s, i, FindFrom(s, "\"", i + 1))
            ELSE IF InStr(Ch(s, i), Digits) THEN NumberLiteral(s, i, DigitsEnd(s, i))
            ELSE IF StartsAt(s, i, "null") THEN Parsed(PyNoneValue, i + 4, FALSE)
            ELSE IF StartsAt(s, i, "true") THEN Parsed(PyBool(TRUE), i + 4, FALSE)
            ELSE IF StartsAt(s, i, "false") THEN Parsed(PyBool(FALSE), i + 5, FALSE)
            ELSE ParseFail
        \* the value is the whole text
        Whole(v) == IF v.ok /\ SkipSpaces(s, v.next) > Len(s) THEN v ELSE ParseFail
    IN  Whole(Value(SkipSpaces(s, 1)))

\* ast.literal_eval, which strips the leading blanks of its argument: ok
\* is FALSE where it raises, SyntaxError when the text is no expression and
\* ValueError when it holds a name
literal_eval(node_or_string) ==
    LET Parse(s) ==
            LET RECURSIVE Expr(_), ListItems(_, _, _), WordEnd(_)
            \* the position after the identifier that starts at position i
            WordEnd(i) == IF IsWordAt(s, i) THEN WordEnd(i + 1) ELSE i
            \* after the items read so far: a comma, or the closing bracket
            ItemSep(k, items, names) ==
                IF k > Len(s) THEN ParseFail
                ELSE IF Ch(s, k) = "]" THEN Parsed(PyList(items), k + 1, names)
                ELSE IF Ch(s, k) = "," THEN ListItems(SkipSpaces(s, k + 1), items, names)
                ELSE ParseFail
            AfterItem(v, items, names) ==
                IF ~v.ok THEN ParseFail
                ELSE ItemSep(SkipSpaces(s, v.next), Append(items, v.val), names \/ v.names)
            \* the rest of a list display from position k: an item, or the
            \* closing bracket
            ListItems(k, items, names) ==
                IF k > Len(s) THEN ParseFail
                ELSE IF Ch(s, k) = "]" THEN Parsed(PyList(items), k + 1, names)
                ELSE AfterItem(Expr(k), items, names)
            \* the identifier word: None, True, False, or a name literal_eval rejects
            Word(word, e) ==
                IF word = "None" THEN Parsed(PyNoneValue, e, FALSE)
                ELSE IF word = "True" THEN Parsed(PyBool(TRUE), e, FALSE)
                ELSE IF word = "False" THEN Parsed(PyBool(FALSE), e, FALSE)
                ELSE Parsed([type |-> "Name"], e, TRUE)
            \* a Python expression at position i: a list display, a string
            \* without escapes, a whole number or an identifier
            Expr(i) ==
                IF i > Len(s) THEN ParseFail
                ELSE IF Ch(s, i) = "[" THEN ListItems(SkipSpaces(s, i + 1), <<>>, FALSE)
                ELSE IF Ch(s, i) = "'" THEN StringLiteral(s, i, FindFrom(s, "'", i + 1))
                ELSE IF Ch(s, i) = "\"" THEN StringLiteral(s, i, FindFrom(s, "\"", i + 1))
                ELSE IF InStr(Ch(s, i), Digits) THEN NumberLiteral(s, i, DigitsEnd(s, i))
                ELSE IF IsWordAt(s, i) THEN Word(SubSeq(s, i, WordEnd(i) - 1), WordEnd(i))
                ELSE ParseFail
            \* the outcome for the parse v of the text
            Whole(v) ==
                IF ~v.ok THEN [ok |-> FALSE, error |-> "SyntaxError"]
                ELSE IF SkipSpaces(s, v.next) <= Len(s)
                     THEN [ok |-> FALSE, error |-> "SyntaxError"]
                ELSE IF v.names THEN [ok |-> FALSE, error |-> "ValueError"]
                ELSE [ok |-> TRUE, val |-> v.val]
        IN  Whole(Expr(1))
    IN  Parse(lstrip(node_or_string))

\* float(text) of a decimal numeral, in hundredths (further fraction digits
\* dropped); ok is FALSE where float raises ValueError
float(text) ==
    LET NotFloat == [ok |-> FALSE]
        IsDigits(s) == s # "" /\ DigitsEnd(s, 1) > Len(s)
        \* the digits of a fraction as hundredths
        Hundredths(frac) == IntOf(SubSeq(frac \o "00", 1, 2))
        \* an unsigned decimal numeral split at its point
        Unsigned(parts) ==
            IF Len(parts) = 1 /\ IsDigits(parts[1])
            THEN [ok |-> TRUE, value |-> 100 * IntOf(parts[1])]
            ELSE IF Len(parts) = 2 /\ IsDigits(parts[1] \o parts[2])
            THEN [ok |-> TRUE, value |-> 100 * IntOf(parts[1]) + Hundredths(parts[2])]
            ELSE NotFloat
        Negated(f) == IF f.ok THEN [ok |-> TRUE, value |-> 0 - f.value] ELSE NotFloat
        Signed(t) ==
            IF StartsAt(t, 1, "-") THEN Negated(Unsigned(SplitOn(Tail(t), ".")))
            ELSE IF StartsAt(t, 1, "+") THEN Unsigned(SplitOn(Tail(t), "."))
            ELSE Unsigned(SplitOn(t, "."))
    IN  Signed(strip(text))

\* is_within_uk, for a point in hundredths of a degree.  Of the points of
\* the model the UK outline covers London; St Helier, Jersey (49.2, -2.1)
\* lies outside.
is_within_uk(lat, lon) == <<lat, lon>> \in {<<5150, -12>>}

(***************************************************************************)
(* The classification engine: process_bo_status                            *)
(***************************************************************************)
controls_as_trust_string == "-as-trust-"

excluded_terms == <<"jersey", "isle of man", "guernsey", "netherlands">>

\* the kinds of the corporate branch
corporate_kinds ==
    { "corporate-entity-person-with-significant-control",
      "corporate-entity-beneficial-owner",
      "legal-person-beneficial-owner" }

\* the setting SKIP_GEO
SKIP_GEO == FALSE

\* value or ""
OrEmpty(value) == IF value = PyNone THEN "" ELSE value

\* address_excluded comparing the address as it is spelt, not lower-cased
address_excluded_CaseSensitive(bo_address) ==
    LET endswith(s, suffix) ==
            Len(suffix) <= Len(s) /\ SubSeq(s, Len(s) - Len(suffix) + 1, Len(s)) = suffix
    IN  \E n \in 1..Len(excluded_terms) : endswith(strip(bo_address), excluded_terms[n])

\* any(bo_address.lower().strip().endswith(term) for term in excluded_terms)
address_excluded(bo_address) ==
    LET \* str.endswith(suffix)
        endswith(s, suffix) ==
            Len(suffix) <= Len(s) /\ SubSeq(s, Len(s) - Len(suffix) + 1, Len(s)) = suffix
    IN  \E n \in 1..Len(excluded_terms) :
            endswith(strip(str_lower(bo_address)), excluded_terms[n])

\* field and is_uk_a_fuzzy_match(field), for legal_form.get(key, ""); the
\* fields of the model's legal forms are strings or null
FieldInUk(members, key) ==
    /\ key \in DOMAIN members
    /\ members[key].type = "str"
    /\ members[key].str # ""
    /\ is_uk_a_fuzzy_match(members[key].str)

\* the test of a parsed legal form that leaves country_registered out
LegalFormInUk_NoCountry(parsed) ==
    IF ~parsed.ok THEN "no"
    ELSE IF parsed.val.type # "dict" THEN "AttributeError"
    ELSE IF \E key \in {"legal_authority", "place_registered"} :
               FieldInUk(parsed.val.members, key)
         THEN "yes"
    ELSE "no"

\* The test of a parsed legal form: "no" after a JSONDecodeError, the
\* AttributeError of .get on a value that is no dict, else whether one of
\* the three registration fields matches.
LegalFormInUk(parsed) ==
    IF ~parsed.ok THEN "no"
    ELSE IF parsed.val.type # "dict" THEN "AttributeError"
    ELSE IF \E key \in {"legal_authority", "country_registered", "place_registered"} :
               FieldInUk(parsed.val.members, key)
         THEN "yes"
    ELSE "no"

\* in_uk of a corporate controller: "yes", "no", or the AttributeError its
\* legal form raises
in_uk_of(slot) ==
    LET \* step 1: the legal registration information
        legal_in_uk(legal_form_str) ==
            IF Blank(legal_form_str) THEN "no"
            ELSE LegalFormInUk(json_loads(legal_form_str))
        \* s.strip(chars)
        RECURSIVE StripChars(_, _)
        StripChars(s, chars) ==
            IF s # "" /\ InStr(Ch(s, 1), chars) THEN StripChars(Tail(s), chars)
            ELSE IF s # "" /\ InStr(Ch(s, Len(s)), chars)
                 THEN StripChars(SubSeq(s, 1, Len(s) - 1), chars)
            ELSE s
        \* the two parts of a latlon text as a point of the UK
        GeoPoint(lat, lon) == lat.ok /\ lon.ok /\ is_within_uk(lat.value, lon.value)
        GeoParts(parts) == Len(parts) = 2 /\ GeoPoint(float(parts[1]), float(parts[2]))
        \* step 2: the coordinates; a malformed text is passed over
        geo_in_uk(latlon_str) ==
            /\ ~Blank(latlon_str)
            /\ GeoParts(SplitOn(StripChars(strip(latlon_str), "()"), ","))
        \* in_uk once the legal information has answered
        AfterLegal(legal) ==
            IF legal = "no" /\ ~SKIP_GEO /\ geo_in_uk(slot.latlon) THEN "yes" ELSE legal
    IN  IF address_excluded(OrEmpty(slot.address)) THEN "no"
        ELSE AfterLegal(legal_in_uk(slot.legal_form))

\* trustee_control of a corporate controller: "yes", "no", the RuntimeError
\* raised for a text literal_eval rejects, or an uncaught TypeError
trustee_control(natures_of_control_string) ==
    LET \* [item for item in natures_of_control if item is not None]
        without_none(items) == SelectSeq(items, LAMBDA item : item # PyNoneValue)
        \* the characters of a str, as iterating it yields them
        StrChars(s) == [k \in 1..Len(s) |-> PyStr(Ch(s, k))]
        \* any(controls_as_trust_string in s for s in natures_of_control):
        \* "yes", "no", or the TypeError of an item that is a number
        RECURSIVE any_trust(_)
        any_trust(natures_of_control) ==
            IF natures_of_control = <<>> THEN "no"
            ELSE IF Head(natures_of_control).type \in {"int", "bool"} THEN "TypeError"
            ELSE IF /\ Head(natures_of_control).type = "str"
                    /\ Contains(Head(natures_of_control).str, controls_as_trust_string)
                 THEN "yes"
            ELSE any_trust(Tail(natures_of_control))
        \* for what literal_eval returned: a list, a str (iterated character
        \* by character) or a value that cannot be iterated
        OfValue(val) ==
            IF val.type = "list" THEN any_trust(without_none(val.items))
            ELSE IF val.type = "str" THEN any_trust(StrChars(val.str))
            ELSE "TypeError"
        OfParsed(parsed) == IF parsed.ok THEN OfValue(parsed.val) ELSE "RuntimeError"
    IN  IF Blank(natures_of_control_string) THEN "no"
        ELSE OfParsed(literal_eval(natures_of_control_string))

\* the tiered checking of the corporate branch
corporate_status(in_uk, bo_name, trustee) ==
    IF in_uk THEN "UK"
    ELSE IF is_listed_company(bo_name) THEN "listed"
    ELSE IF is_government_owned(bo_name) THEN "government-owned"
    ELSE IF is_it_excluded(bo_name) THEN "manually checked"
    ELSE IF trustee THEN "trustee"
    ELSE "suspect"

\* One pass of the loop over the slots, for a slot with a kind: the status
\* it gives the controller, or the exception it raises.
slot_outcome(title, i, j, slot) ==
    LET Labelled(status) == [raised |-> FALSE, status |-> status]
        Raised(error) == [raised |-> TRUE, error |-> error]
        \* the RuntimeError of process_bo_status and what its message names
        InvalidNatures ==
            [outcome |-> "RuntimeError", title |-> title, proprietor |-> i, BO |-> j,
             natures_of_control |-> slot.natures_of_control]
        \* an exception process_bo_status does not catch
        Uncaught(exception) == [outcome |-> exception]
        \* the corporate branch, once in_uk and trustee_control are evaluated
        Corporate(in_uk, trust) ==
            IF in_uk = "AttributeError" THEN Raised(Uncaught("AttributeError"))
            ELSE IF trust = "RuntimeError" THEN Raised(InvalidNatures)
            ELSE IF trust = "TypeError" THEN Raised(Uncaught("TypeError"))
            ELSE Labelled(corporate_status(in_uk = "yes", slot.name, trust = "yes"))
        \* the branches on bo_kind, stripped
        Kind(bo_kind) ==
            IF bo_kind = "individual-beneficial-owner" THEN Labelled("individual")
            ELSE IF bo_kind = "super-secure-beneficial-owner" THEN Labelled("super-secure")
            ELSE IF bo_kind \in corporate_kinds
                 THEN Corporate(in_uk_of(slot), trustee_control(slot.natures_of_control))
            ELSE Labelled("suspect")
    IN  Kind(strip(slot.kind))

reg_status_col(i, j) ==
    "proprietor" \o Ch(Digits, i + 1) \o "_BO" \o Ch(Digits, j + 1) \o "_reg_status"

\* process_bo_status with the re-check clearing any failure of a matching proprietor
process_bo_status_ClearsAnyFailure(bo_row_in) ==
    LET BO_failure_col(i) == "proprietor" \o Ch(Digits, i + 1) \o "_BO_failure"
        \* 1 for a status that is label, else 0
        CountOf(status, label) == IF status = label THEN 1 ELSE 0
        \* update_dict[col] = status, and the counter of the status
        WithStatus(acc, col, status) ==
            [acc EXCEPT !.update_dict = (col :> status) @@ @,
                        !.listed_exclusions = @ + CountOf(status, "listed"),
                        !.government_exclusions = @ + CountOf(status, "government-owned"),
                        !.manual_exclusions = @ + CountOf(status, "manually checked"),
                        !.trustees = @ + CountOf(status, "trustee")]
        \* The re-check of a proprietor recorded as "No BO": its failure is
        \* cleared when its own name is listed, government-owned or excluded.
        recheck_no_bo(prop, i, acc) ==
            IF /\ prop.BO_failure # PyNone
               /\ \/ is_listed_company(prop.name)
                  \/ is_government_owned(prop.name)
                  \/ is_it_excluded(prop.name)
            THEN [acc EXCEPT !.update_dict = (BO_failure_col(i) :> PyNone) @@ @]
            ELSE acc
        RECURSIVE ProprietorLoop(_, _), SlotLoop(_, _, _)
        \* after the slot: the exception leaves the function, or the status
        \* is written
        SlotDone(i, j, acc, out) ==
            IF out.raised THEN out.error
            ELSE SlotLoop(i, j + 1, WithStatus(acc, reg_status_col(i, j), out.status))
        \* for j in range(1, 5)
        SlotLoop(i, j, acc) ==
            IF j > MaxSlots THEN ProprietorLoop(i + 1, acc)
            ELSE IF Blank(bo_row_in.proprietors[i].BO[j].kind) THEN SlotLoop(i, j + 1, acc)
            ELSE SlotDone(i, j, acc,
                          slot_outcome(bo_row_in.property_title_number, i, j,
                                       bo_row_in.proprietors[i].BO[j]))
        \* for i in range(1, 5)
        ProprietorLoop(i, acc) ==
            IF i > MaxProprietors THEN acc
            ELSE SlotLoop(i, 1, recheck_no_bo(bo_row_in.proprietors[i], i, acc))
        \* what is returned when nothing is raised, before the loops
        EmptyUpdate ==
            [outcome |-> "returned", update_dict |-> [col \in {} |-> PyNone],
             listed_exclusions |-> 0, government_exclusions |-> 0,
             manual_exclusions |-> 0, trustees |-> 0]
    IN  ProprietorLoop(1, EmptyUpdate)

\* process_bo_status: the tuple it returns, or the exception it raises
process_bo_status(bo_row_in) ==
    LET BO_failure_col(i) == "proprietor" \o Ch(Digits, i + 1) \o "_BO_failure"
        \* 1 for a status that is label, else 0
        CountOf(status, label) == IF status = label THEN 1 ELSE 0
        \* update_dict[col] = status, and the counter of the status
        WithStatus(acc, col, status) ==
            [acc EXCEPT !.update_dict = (col :> status) @@ @,
                        !.listed_exclusions = @ + CountOf(status, "listed"),
                        !.government_exclusions = @ + CountOf(status, "government-owned"),
                        !.manual_exclusions = @ + CountOf(status, "manually checked"),
                        !.trustees = @ + CountOf(status, "trustee")]
        \* The re-check of a proprietor recorded as "No BO": its failure is
        \* cleared when its own name is listed, government-owned or excluded.
        recheck_no_bo(prop, i, acc) ==
            IF /\ prop.BO_failure = "No BO"
               /\ \/ is_listed_company(prop.name)
                  \/ is_government_owned(prop.name)
                  \/ is_it_excluded(prop.name)
            THEN [acc EXCEPT !.update_dict = (BO_failure_col(i) :> PyNone) @@ @]
            ELSE acc
        RECURSIVE ProprietorLoop(_, _), SlotLoop(_, _, _)
        \* after the slot: the exception leaves the function, or the status
        \* is written
        SlotDone(i, j, acc, out) ==
            IF out.raised THEN out.error
            ELSE SlotLoop(i, j + 1, WithStatus(acc, reg_status_col(i, j), out.status))
        \* for j in range(1, 5)
        SlotLoop(i, j, acc) ==
            IF j > MaxSlots THEN ProprietorLoop(i + 1, acc)
            ELSE IF Blank(bo_row_in.proprietors[i].BO[j].kind) THEN SlotLoop(i, j + 1, acc)
            ELSE SlotDone(i, j, acc,
                          slot_outcome(bo_row_in.property_title_number, i, j,
                                       bo_row_in.proprietors[i].BO[j]))
        \* for i in range(1, 5)
        ProprietorLoop(i, acc) ==
            IF i > MaxProprietors THEN acc
            ELSE SlotLoop(i, 1, recheck_no_bo(bo_row_in.proprietors[i], i, acc))
        \* what is returned when nothing is raised, before the loops
        EmptyUpdate ==
            [outcome |-> "returned", update_dict |-> [col \in {} |-> PyNone],
             listed_exclusions |-> 0, government_exclusions |-> 0,
             manual_exclusions |-> 0, trustees |-> 0]
    IN  ProprietorLoop(1, EmptyUpdate)

(***************************************************************************)
(* The rows classified in the model                                        *)
(***************************************************************************)
BoSlot(kind, address, legal_form, latlon, natures, name) ==
    [kind |-> kind, address |-> address, legal_form |-> legal_form, latlon |-> latlon,
     natures_of_control |-> natures, name |-> name]

\* the kinds of controller the exporter knows the registry to use
BO_KIND_TO_ID ==
    { "individual-beneficial-owner",
      "corporate-entity-beneficial-owner",
      "legal-person-beneficial-owner",
      "super-secure-beneficial-owner",
      "super-secure-person-with-significant-control",
      "corporate-entity-person-with-significant-control" }

\* The controllers in the first slot of the first proprietor: corporate
\* controllers with every combination of the fields, controllers of every
\* kind the registry uses with every natures text, and corporate
\* controllers with a field missing or malformed.  Natures texts are as
\* process_all_records writes them (str of a list, '' for none) or damaged
\* on the way: cut short, a bare word, a number, a quoted string, a list of
\* numbers.
FirstSlots ==
    LET GoodNatures ==
            { "", "['ownership-of-shares-75-to-100-percent']",
              "[None, 'right-to-appoint-and-remove-directors-as-trust-registered-overseas-entity']" }
        TruncatedNatures == "['ownership-of-shares-75-to-100-percent'"
        BadNatures == {TruncatedNatures, "nan", "5", "'voting-rights-as-trust'", "[1]"}
        UkLegalForm ==
            "{\"legal_authority\": null, \"country_registered\": \"Englnd and Wales\"}"
        JerseyLegalForm ==
            "{\"legal_authority\": \"Jersey law\", \"place_registered\": \"Jersey\"}"
        AddressTexts ==
            { "1 High Street, Leeds",
              "Jersey House, 2 Guernsey Road, London",
              "1 Esplanade, St Helier, JERSEY " }
        LondonLatlon == "(51.5, -0.12)"
        CorporateSlots ==
            { BoSlot(kind, address, legal_form, latlon, natures, name) :
                kind \in {"corporate-entity-beneficial-owner",
                          " legal-person-beneficial-owner "},
                address \in AddressTexts,
                legal_form \in {PyNone, UkLegalForm, JerseyLegalForm, "{broken"},
                latlon \in {PyNone, LondonLatlon, "(49.2, -2.1)"},
                natures \in GoodNatures \cup {TruncatedNatures},
                name \in ControllerNames \ {PyNone} }
        KindSlots ==
            { BoSlot(kind, "1 High Street, Leeds", legal_form, PyNone, natures, "Acme Ltd") :
                kind \in BO_KIND_TO_ID \cup {" individual-beneficial-owner", "other"},
                legal_form \in {PyNone, UkLegalForm},
                natures \in GoodNatures \cup BadNatures }
        OddSlots ==
            { BoSlot("corporate-entity-beneficial-owner", address, legal_form, latlon,
                     "", name) :
                address \in {PyNone, "1 High Street, Leeds"},
                legal_form \in {PyNone, "{broken"},
                latlon \in {"51.5", "(north, west)", LondonLatlon},
                name \in {PyNone, "Acme Ltd"} }
    IN  CorporateSlots \cup KindSlots \cup OddSlots

\* The rows process_bo_status is applied to.  The other slots of the first
\* proprietor hold no controller or one whose natures are cut short; the
\* other proprietors have no controllers or individuals only.  A first
\* proprietor without controllers has a name of one of the reference files
\* or of none, and the failure "No BO" or "No company found".
ClassifyRows ==
    LET EmptyBoSlot == BoSlot(PyNone, PyNone, PyNone, PyNone, PyNone, PyNone)
        OtherSlots ==
            { EmptyBoSlot,
              BoSlot("legal-person-beneficial-owner", PyNone, PyNone, PyNone,
                     "['ownership-of-shares-75-to-100-percent'", "Acme Ltd") }
        BoProprietor(name, BO_failure, slots) ==
            [name |-> name, BO_failure |-> BO_failure, BO |-> slots]
        FirstSlotLists ==
            { [j \in 1..MaxSlots |-> IF j = 1 THEN first ELSE rest[j]] :
                first \in FirstSlots, rest \in [1..MaxSlots -> OtherSlots] }
        \* name and BO_failure of the first proprietor
        ProprietorHeads ==
            {<<"Acme Ltd", PyNone>>, <<"Cafe Bank Ltd", "No BO">>, <<"Acme Ltd", "No BO">>}
        FirstProprietors ==
            { BoProprietor(head[1], head[2], slots) :
                head \in ProprietorHeads, slots \in FirstSlotLists }
            \cup { BoProprietor(name, BO_failure, [j \in 1..MaxSlots |-> EmptyBoSlot]) :
                     name \in {"Cafe Bank Ltd", "Oman Oil SA", "Zed Trust Ltd", "Acme Ltd"},
                     BO_failure \in {"No BO", "No company found"} }
        OtherProprietors ==
            { BoProprietor("Acme Ltd", PyNone, [j \in 1..MaxSlots |-> EmptyBoSlot]),
              BoProprietor("Zed Trust", "No BO",
                           [j \in 1..MaxSlots |->
                               BoSlot("individual-beneficial-owner", PyNone, PyNone, PyNone,
                                      "", "Ann Lee")]) }
    IN  { [property_title_number |-> "T1",
           proprietors |-> [i \in 1..MaxProprietors |->
                               IF i = 1 THEN first ELSE rest[i]]] :
            first \in FirstProprietors, rest \in [1..MaxProprietors -> OtherProprietors] }

NoRow == [property_title_number |-> PyNone, proprietors |-> <<>>]

NotProcessed == [outcome |-> "none"]

\* process_bo_status(bo_row), as worker_process_rows calls it
ProcessBoStatus ==
    /\ bo_result = NotProcessed
    /\ bo_row # NoRow
    /\ bo_result' = process_bo_status(bo_row)
    /\ UNCHANGED <<bo_row, resolver_vars, throttle_vars, records_vars, normalise_vars,
                   registry_vars, parallel_vars, run_vars, address_call>>

\* a run in which no row is classified
ClassifyUnused ==
    /\ bo_row = NoRow
    /\ bo_result = NotProcessed

\* a row of the model handed to process_bo_status
ClassifyInit ==
    /\ bo_row \in ClassifyRows
    /\ bo_result = NotProcessed

(***************************************************************************)
(* normalise_text applied to a text and to its own result                  *)
(***************************************************************************)
\* longest text of the model that is not a name with a suffix
MaxTextLen == 3

\* applications of normalise_text to one text and its results
MaxNormalise == 2

\* Spellings of the legal suffixes of TOKENS_TO_REMOVE, one set per suffix:
\* dotted, undotted and space-separated, in either case.
SuffixSpellings ==
    { {"S.A.", "SA", "sa", "s.a", "s a", "S A"},
      {"Ltd", "LTD", "L.T.D.", "l t d"} }

\* The texts normalised in the model, as a name and a suffix appended to
\* it: the names "Ab" and "Zed Oil" with every spelling of a suffix, and
\* every text of up to MaxTextLen characters over "sa .", without a suffix.
NormaliseTexts ==
    LET RECURSIVE TextsOf(_)
        Longer(shorter, n) ==
            shorter \cup {s \o c : s \in {x \in shorter : Len(x) = n - 1},
                                   c \in {"s", "a", " ", "."}}
        TextsOf(n) == IF n = 0 THEN {""} ELSE Longer(TextsOf(n - 1), n)
    IN  {[name |-> name, suffix |-> spelling] :
            name \in {"Ab", "Zed Oil"}, spelling \in UNION SuffixSpellings}
        \cup {[name |-> s, suffix |-> ""] : s \in TextsOf(MaxTextLen)}

\* normalise_text(text) for the text of the run, then for what the last
\* call returned
NormaliseAgain ==
    LET \* the name with the suffix appended
        Text(t) == IF t.suffix = "" THEN t.name ELSE t.name \o " " \o t.suffix
    IN  /\ norm_text.name # PyNone
        /\ Len(norm_calls) < MaxNormalise
        /\ norm_calls' =
              Append(norm_calls,
                     normalise_text(IF norm_calls = <<>> THEN Text(norm_text)
                                    ELSE norm_calls[Len(norm_calls)]))
        /\ UNCHANGED <<norm_text, resolver_vars, throttle_vars, records_vars,
                       classify_vars, registry_vars, parallel_vars, run_vars, address_call>>

\* a run in which normalise_text is not called on its own
NormaliseUnused ==
    /\ norm_text = [name |-> PyNone, suffix |-> ""]
    /\ norm_calls = <<>>

(***************************************************************************)
(* get_company_profile and get_BO_list (roe_2_find_BOs.py)                 *)
(***************************************************************************)
\* requests.get calls of the two fetches in one run of the model
MaxFetchRequests == 3

\* What one requests.get of a fetch can produce: a status code (for 200
\* with a body that r.json() parses, or one it raises on) or an exception.
FetchResponses ==
    {[status |-> 200, json |-> j] :
        j \in {PyDict([key \in {"company_number"} |-> PyStr("OE1")]), ParseFail}} \cup
    {[status |-> c] : c \in {404, 403, 502, 500}} \cup
    {[status |-> 429, retry_after |-> h] : h \in {"absent", "10", "not a number"}} \cup
    {[status |-> RequestException]}

\* profile = get_company_profile(num) and bo_json = get_BO_list(num) of
\* find_BOs_for_company, up to the while loop: the profile is fetched for
\* the number get_company_details returned, the controllers after it
FetchCall(op) ==
    /\ gcd_pc = "idle"
    /\ last_call # NoCall
    /\ last_call.result[2] # PyNone
    /\ \/ op = "get_company_profile" /\ fetch_pc = "idle"
       \/ op = "get_BO_list" /\ fetch_pc = "returned" /\ fetch.op = "get_company_profile"
    /\ fetch' = [fetch EXCEPT !.op = op, !.company_number = last_call.result[2],
                              !.response = {}, !.result = PyNoneValue]
    /\ fetch_pc' = "loop"
    /\ UNCHANGED <<resolver_vars, throttle_vars, records_vars, classify_vars,
                   normalise_vars, parallel_vars, run_vars, address_call>>

\* the first statement of a pass of the while loop: throttle_requests()
FetchThrottle ==
    /\ fetch_pc = "loop"
    /\ fetch.requests < MaxFetchRequests
    /\ fetch' = [fetch EXCEPT !.throttle_calls = @ + 1]
    /\ fetch_pc' = "send"
    /\ UNCHANGED <<resolver_vars, throttle_vars, records_vars, classify_vars,
                   normalise_vars, parallel_vars, run_vars, address_call>>

\* FetchSend with the retry of a 502 sent without a throttle_requests call
FetchSend_RetryUnthrottled(resp) ==
    LET Return(value) ==
            /\ fetch' = [fetch EXCEPT !.requests = @ + 1, !.response = {resp.status},
                                      !.result = value]
            /\ fetch_pc' = "returned"
        Retry ==
            /\ fetch' = [fetch EXCEPT !.requests = @ + 1, !.response = {resp.status}]
            /\ fetch_pc' = IF resp.status = 502 /\ fetch.requests + 1 < MaxFetchRequests
                           THEN "send" ELSE "loop"
    IN  /\ fetch_pc = "send"
        /\ IF resp.status = 200 /\ resp.json # ParseFail THEN Return(resp.json)
           ELSE IF resp.status \in {404, 403}
           THEN Return(IF fetch.op = "get_company_profile" THEN PyNoneValue
                       ELSE PyDict([key \in {"items"} |-> PyList(<<>>)]))
           ELSE Retry
        /\ UNCHANGED <<resolver_vars, throttle_vars, records_vars, classify_vars,
                       normalise_vars, parallel_vars, run_vars, address_call>>

\* The rest of a pass: requests.get answers resp (or raises).  200 returns
\* r.json(); 404 and 403 return None (get_company_profile) or {"items": []}
\* (get_BO_list); 502, 429, any other status and every exception raised
\* inside the try (by requests.get, by r.json(), by int() of a Retry-After
\* that is not a number) sleep and go round the loop again.
FetchSend(resp) ==
    LET Return(value) ==
            /\ fetch' = [fetch EXCEPT !.requests = @ + 1, !.response = {resp.status},
                                      !.result = value]
            /\ fetch_pc' = "returned"
        Retry ==
            /\ fetch' = [fetch EXCEPT !.requests = @ + 1, !.response = {resp.status}]
            /\ fetch_pc' = "loop"
    IN  /\ fetch_pc = "send"
        /\ IF resp.status = 200 /\ resp.json # ParseFail THEN Return(resp.json)
           ELSE IF resp.status \in {404, 403}
           THEN Return(IF fetch.op = "get_company_profile" THEN PyNoneValue
                       ELSE PyDict([key \in {"items"} |-> PyList(<<>>)]))
           ELSE Retry
        /\ UNCHANGED <<resolver_vars, throttle_vars, records_vars, classify_vars,
                       normalise_vars, parallel_vars, run_vars, address_call>>

\* a run in which neither fetch is called
FetchUnused ==
    /\ fetch_pc = "idle"
    /\ fetch = [op |-> PyNone, company_number |-> PyNone, throttle_calls |-> 0,
                requests |-> 0, response |-> {}, result |-> PyNoneValue]

(***************************************************************************)
(* main: the parallel branch, its workers and the sequential branch        *)
(* (roe_5_categorise_BOs.py)                                               *)
(***************************************************************************)
\* rows of the entities table in the model
MaxTableRows == 3

\* largest CHUNK_SIZE of the model
MaxChunkSize == 2

\* largest FLUSH_BATCH of the model
MaxFlushBatch == 2

\* The entities tables of the model, rowid being the position: rows whose
\* proprietor was recorded as "No BO" and is listed, rows without any
\* controller and rows with a listed corporate controller, in turn; in all
\* but one table one row has natures of control that were cut short.
Tables ==
    LET EmptyBoSlot == BoSlot(PyNone, PyNone, PyNone, PyNone, PyNone, PyNone)
        Proprietor(name, BO_failure, first) ==
            [name |-> name, BO_failure |-> BO_failure,
             BO |-> [j \in 1..MaxSlots |-> IF j = 1 THEN first ELSE EmptyBoSlot]]
        Row(k, name, BO_failure, first) ==
            [property_title_number |-> "T" \o Ch(Digits, k + 1),
             proprietors |-> [i \in 1..MaxProprietors |->
                                 IF i = 1 THEN Proprietor(name, BO_failure, first)
                                 ELSE Proprietor("Acme Ltd", PyNone, EmptyBoSlot)]]
        Corporate(natures, name) ==
            BoSlot("corporate-entity-beneficial-owner", "1 High Street, Leeds", PyNone,
                   PyNone, natures, name)
        GoodRow(k) ==
            CASE k % 3 = 1 ->
                    Row(k, "Cafe Bank Ltd", "No BO",
                        BoSlot("individual-beneficial-owner", PyNone, PyNone, PyNone, "",
                               "Ann Lee"))
              [] k % 3 = 2 -> Row(k, "Acme Ltd", PyNone, EmptyBoSlot)
              [] OTHER -> Row(k, "Acme Ltd", PyNone, Corporate("", "CAFÉ BANK LTD"))
        MalformedRow(k) ==
            Row(k, "Acme Ltd", PyNone,
                Corporate("['ownership-of-shares-75-to-100-percent'", "Acme Ltd"))
    IN  { [k \in 1..MaxTableRows |-> IF k = bad THEN MalformedRow(k) ELSE GoodRow(k)] :
            bad \in 0..MaxTableRows }

\* worker_process_rows(rows): the updates and the counters of a batch, or
\* the exception of process_bo_status
worker_process_rows(rows) ==
    LET RECURSIVE Loop(_, _, _)
        \* the pass for row k, outs[k] being what process_bo_status(row) gave
        Loop(outs, k, acc) ==
            IF k > Len(rows) THEN acc
            ELSE IF outs[k].outcome # "returned" THEN [raised |-> TRUE, error |-> outs[k]]
            ELSE Loop(outs, k + 1,
                      [raised |-> FALSE,
                       updates |-> IF DOMAIN outs[k].update_dict # {}
                                   THEN Append(acc.updates,
                                               <<rows[k].rowid, outs[k].update_dict>>)
                                   ELSE acc.updates,
                       counters |-> <<acc.counters[1] + outs[k].listed_exclusions,
                                      acc.counters[2] + outs[k].government_exclusions,
                                      acc.counters[3] + outs[k].manual_exclusions,
                                      acc.counters[4] + outs[k].trustees>>])
    IN  Loop([k \in 1..Len(rows) |-> process_bo_status(rows[k].row)], 1,
             [raised |-> FALSE, updates |-> <<>>, counters |-> <<0, 0, 0, 0>>])

\* update_record_with_retry with the values appended to the columns
update_record_with_retry_Append(store, rowid, update_dict) ==
    LET BO_failure_col(i) == "proprietor" \o Ch(Digits, i + 1) \o "_BO_failure"
        failure_cols == {BO_failure_col(i) : i \in 1..MaxProprietors}
        Updated(old) ==
            [row |-> [old.row EXCEPT !.proprietors =
                        [i \in DOMAIN old.row.proprietors |->
                            IF BO_failure_col(i) \in DOMAIN update_dict
                            THEN [old.row.proprietors[i] EXCEPT
                                     !.BO_failure = update_dict[BO_failure_col(i)]]
                            ELSE old.row.proprietors[i]]],
             reg_status |->
                [col \in (DOMAIN old.reg_status) \cup (DOMAIN update_dict \ failure_cols) |->
                    IF col \notin DOMAIN update_dict THEN old.reg_status[col]
                    ELSE IF col \in DOMAIN old.reg_status
                    THEN old.reg_status[col] \o "," \o update_dict[col]
                    ELSE update_dict[col]]]
    IN  [store EXCEPT ![rowid] = Updated(store[rowid])]

\* update_record_with_retry when conn.execute succeeds: UPDATE entities SET
\* col = ?, ... WHERE rowid = ?, for the columns of update_dict
update_record_with_retry(store, rowid, update_dict) ==
    LET BO_failure_col(i) == "proprietor" \o Ch(Digits, i + 1) \o "_BO_failure"
        failure_cols == {BO_failure_col(i) : i \in 1..MaxProprietors}
        Updated(old) ==
            [row |-> [old.row EXCEPT !.proprietors =
                        [i \in DOMAIN old.row.proprietors |->
                            IF BO_failure_col(i) \in DOMAIN update_dict
                            THEN [old.row.proprietors[i] EXCEPT
                                     !.BO_failure = update_dict[BO_failure_col(i)]]
                            ELSE old.row.proprietors[i]]],
             reg_status |->
                [col \in (DOMAIN old.reg_status) \cup (DOMAIN update_dict \ failure_cols) |->
                    IF col \in DOMAIN update_dict THEN update_dict[col]
                    ELSE old.reg_status[col]]]
    IN  [store EXCEPT ![rowid] = Updated(store[rowid])]

\* The sequential branch of main (WORKERS <= 1) on a table whose UPDATEs
\* succeed: how it ends, the table it leaves and the totals it prints.  An
\* exception of process_bo_status leaves main before conn.commit(), and
\* conn.close() drops the transaction.
main_sequential(store) ==
    LET RECURSIVE Loop(_, _, _)
        \* the pass for row k, outs[k] being what process_bo_status(row) gave
        Loop(outs, k, acc) ==
            IF k > Len(store) THEN acc
            ELSE IF outs[k].outcome # "returned"
            THEN [pc |-> "aborted", entities |-> store, totals |-> acc.totals]
            ELSE Loop(outs, k + 1,
                      [pc |-> "done",
                       entities |-> IF DOMAIN outs[k].update_dict # {}
                                    THEN update_record_with_retry(acc.entities, k,
                                                                  outs[k].update_dict)
                                    ELSE acc.entities,
                       totals |-> <<acc.totals[1] + outs[k].listed_exclusions,
                                    acc.totals[2] + outs[k].government_exclusions,
                                    acc.totals[3] + outs[k].manual_exclusions,
                                    acc.totals[4] + outs[k].trustees>>])
    IN  Loop([k \in 1..Len(store) |-> process_bo_status(store[k].row)], 1,
             [pc |-> "done", entities |-> store, totals |-> <<0, 0, 0, 0>>])

\* WorkerProcessRows with the worker executing its updates on the table
WorkerProcessRows_Writes(b) ==
    LET RECURSIVE Write(_, _)
        Write(updates, store) ==
            IF updates = <<>> THEN store
            ELSE Write(Tail(updates),
                       update_record_with_retry(store, updates[1][1], updates[1][2]))
        Finish(result) ==
            /\ pool' = [pool EXCEPT !.todo = @ \ {b}, !.completed = Append(@, result)]
            /\ entities' = IF result.raised THEN entities
                           ELSE Write(result.updates, entities)
    IN  /\ main.pc \in {"pool", "flush"}
        /\ b \in pool.todo
        /\ Finish(worker_process_rows(pool.batches[b]))
        /\ UNCHANGED <<txn, settings, main, last_flush>>
        /\ UNCHANGED <<resolver_vars, throttle_vars, records_vars, classify_vars,
                       normalise_vars, registry_vars, run_vars, address_call>>

\* a worker of the pool finishes batch b: worker_process_rows(batch), its
\* return value or exception delivered to imap_unordered
WorkerProcessRows(b) ==
    /\ main.pc \in {"pool", "flush"}
    /\ b \in pool.todo
    /\ pool' = [pool EXCEPT !.todo = @ \ {b},
                            !.completed = Append(@, worker_process_rows(pool.batches[b]))]
    /\ UNCHANGED <<entities, txn, settings, main, last_flush>>
    /\ UNCHANGED <<resolver_vars, throttle_vars, records_vars, classify_vars,
                   normalise_vars, registry_vars, run_vars, address_call>>

\* The for statement over pool.imap_unordered and the statements after it.
\* With a result: an exception of the worker leaves main (conn.close() in
\* the finally); otherwise the updates are buffered and, if USE_WAL and
\* FLUSH_BATCH and len(pending_updates) >= FLUSH_BATCH, flush_pending
\* begins its transaction, the counters being added after it; else the
\* counters are added.  With every batch taken: read_conn.close() and the
\* last flush_pending, which returns at once when nothing is pending.
PoolLoop ==
    LET Begin(pending, counters, final) ==
            /\ main' = [main EXCEPT !.pc = "flush", !.pending_updates = pending,
                                    !.flush_at = 1, !.counters = counters,
                                    !.final = final]
            /\ txn' = [open |-> TRUE, entities |-> entities]
            /\ last_flush' = pending
        Take(result, pending) ==
            IF result.raised
            THEN /\ main' = [main EXCEPT !.pc = "aborted"]
                 /\ UNCHANGED <<txn, last_flush>>
            ELSE IF /\ settings.USE_WAL
                    /\ settings.FLUSH_BATCH # 0
                    /\ Len(pending) >= settings.FLUSH_BATCH
            THEN Begin(pending, result.counters, FALSE)
            ELSE /\ main' = [main EXCEPT
                                !.pending_updates = pending,
                                !.totals = [n \in 1..4 |-> @[n] + result.counters[n]]]
                 /\ UNCHANGED <<txn, last_flush>>
    IN  /\ main.pc = "pool"
        /\ \/ /\ pool.completed # <<>>
              /\ Take(Head(pool.completed),
                      main.pending_updates \o
                        (IF Head(pool.completed).raised THEN <<>>
                         ELSE Head(pool.completed).updates))
              /\ pool' = [pool EXCEPT !.completed = Tail(@)]
           \/ /\ pool.completed = <<>>
              /\ pool.todo = {}
              /\ IF main.pending_updates = <<>>
                 THEN /\ main' = [main EXCEPT !.pc = "done"]
                      /\ UNCHANGED <<txn, last_flush>>
                 ELSE Begin(main.pending_updates, <<0, 0, 0, 0>>, TRUE)
              /\ UNCHANGED pool
        /\ UNCHANGED <<entities, settings>>
        /\ UNCHANGED <<resolver_vars, throttle_vars, records_vars, classify_vars,
                       normalise_vars, registry_vars, run_vars, address_call>>

\* One pass of the for loop of flush_pending: update_record_with_retry for
\* the next pending update.  It returns True when conn.execute succeeds and
\* False, after a message, when the database stays locked or the UPDATE is
\* in error; flush_pending does not look at the value.
FlushUpdate(ok) ==
    /\ main.pc = "flush"
    /\ main.flush_at <= Len(main.pending_updates)
    /\ txn' = IF ok
              THEN [txn EXCEPT !.entities =
                        update_record_with_retry(@, main.pending_updates[main.flush_at][1],
                                                 main.pending_updates[main.flush_at][2])]
              ELSE txn
    /\ main' = [main EXCEPT !.flush_at = @ + 1, !.failed = @ \/ ~ok]
    /\ UNCHANGED <<entities, settings, pool, last_flush>>
    /\ UNCHANGED <<resolver_vars, throttle_vars, records_vars, classify_vars,
                   normalise_vars, registry_vars, run_vars, address_call>>

\* the end of flush_pending: conn.commit(), applied and pending_updates;
\* then the counters of the result (in the loop) or the end of main
FlushCommit ==
    /\ main.pc = "flush"
    /\ main.flush_at > Len(main.pending_updates)
    /\ entities' = txn.entities
    /\ txn' = [open |-> FALSE, entities |-> <<>>]
    /\ main' = [main EXCEPT !.pc = IF main.final THEN "done" ELSE "pool",
                            !.applied = @ + Len(main.pending_updates),
                            !.pending_updates = <<>>,
                            !.flush_at = 0,
                            !.totals = [n \in 1..4 |-> @[n] + main.counters[n]],
                            !.counters = <<0, 0, 0, 0>>]
    /\ UNCHANGED <<settings, pool, last_flush>>
    /\ UNCHANGED <<resolver_vars, throttle_vars, records_vars, classify_vars,
                   normalise_vars, registry_vars, run_vars, address_call>>

\* main is interrupted inside flush_pending, or conn.commit() raises: the
\* except clause rolls back or the finally clause closes conn, and the
\* transaction is dropped
CrashMidFlush ==
    /\ main.pc = "flush"
    /\ txn' = [open |-> FALSE, entities |-> <<>>]
    /\ main' = [main EXCEPT !.pc = "crashed"]
    /\ UNCHANGED <<entities, settings, pool, last_flush>>
    /\ UNCHANGED <<resolver_vars, throttle_vars, records_vars, classify_vars,
                   normalise_vars, registry_vars, run_vars, address_call>>

\* a run in which main is not called
ParallelUnused ==
    /\ entities = <<>>
    /\ txn = [open |-> FALSE, entities |-> <<>>]
    /\ settings = [CHUNK_SIZE |-> 0, FLUSH_BATCH |-> 0, USE_WAL |-> FALSE]
    /\ pool = [batches |-> <<>>, todo |-> {}, completed |-> <<>>]
    /\ main = [pc |-> "idle"]
    /\ last_flush = <<>>

(***************************************************************************)
(* process_all_records: the rows it fetches, the UPDATE of a row and       *)
(* commit_with_retry (roe_2_find_BOs.py)                                   *)
(***************************************************************************)
\* MAX_DB_RETRIES
MAX_DB_RETRIES == 10

\* rows of the table process_all_records runs on in the model
MaxRunRows == 2

\* What find_BOs_for_company returns for a proprietor in a run of the
\* model: (status, bos, reg_address, comp_number) for a company with an
\* active and a ceased controller, for a company without controllers and
\* without any address, and for a name the registry does not know.
RunFounds ==
    LET Controller(name, ceased, identification, address, natures) ==
            [name |-> name, kind |-> "individual-beneficial-owner",
             ceased |-> ceased, ceased_on |-> PyNoneValue, ceased_date |-> PyNoneValue,
             identification |-> identification, address |-> address,
             is_sanctioned |-> PyBool(FALSE), natures_of_control |-> natures]
    IN  { [status |-> "OK",
           bos |-> << Controller("Old Owner", PyBool(TRUE), <<>>,
                                 [locality |-> PyNone, country |-> PyNone], <<>>),
                      Controller("Ann Lee", PyNoneValue, <<"legal_form", "Limited">>,
                                 [locality |-> "Leeds", country |-> "England"],
                                 <<"ownership-of-shares-75-to-100-percent">>) >>,
           reg_address |-> "1 High Street, Leeds", comp_number |-> "OE1"],
          [status |-> "No BO", bos |-> <<>>, reg_address |-> PyNone,
           comp_number |-> "FC2"],
          [status |-> "No company found", bos |-> <<>>, reg_address |-> PyNone,
           comp_number |-> PyNone] }

\* The update dict of a row when the loop over its proprietors is over and
\* update['status'] is set: founds[i] is what find_BOs_for_company returned
\* for proprietor i, NotLooked for a proprietor without a name.
RowUpdate(founds) ==
    LET P(i) == "proprietor" \o Ch(Digits, i + 1) \o "_"
        Slot(i, j) == P(i) \o "BO" \o Ch(Digits, j + 1) \o "_"
        slot_fields == {"name", "legal_form", "ceased", "kind", "address",
                        "is_sanctioned", "natures_of_control"}
        Looked(i) == founds[i].status # PyNone
        active_bos(i) ==
            IF Looked(i) /\ founds[i].status = "OK" THEN ActiveBos(founds[i].bos) ELSE <<>>
        \* json.dumps(ident) if ident else None
        \* of a dict that is empty or has one key
        legal_form(ident) ==
            IF ident = <<>> THEN PyNone
            ELSE "{\"" \o ident[1] \o "\": \"" \o ident[2] \o "\"}"
        \* ', '.join(parts) if parts else None, of the locality and the
        \* country of an address
        address(addr) ==
            CASE addr.locality # PyNone /\ addr.country # PyNone ->
                    addr.locality \o ", " \o addr.country
              [] addr.locality # PyNone -> addr.locality
              [] addr.country # PyNone -> addr.country
              [] OTHER -> PyNone
        \* str(bo.get('natures_of_control', ''))
        natures(list) == IF list = <<>> THEN "[]" ELSE "['" \o list[1] \o "']"
        \* the value sqlite3 stores for a None, a bool or a str of the response
        Stored(value) ==
            CASE value.type = "NoneType" -> PyNone
              [] value.type = "bool" -> IF value.bool THEN "1" ELSE "0"
              [] value.type = "str" -> value.str
        SlotValue(bo, field) ==
            CASE field = "name" -> bo.name
              [] field = "legal_form" -> legal_form(bo.identification)
              [] field = "ceased" -> Stored(bo.ceased)
              [] field = "kind" -> bo.kind
              [] field = "address" -> address(bo.address)
              [] field = "is_sanctioned" -> Stored(bo.is_sanctioned)
              [] field = "natures_of_control" -> natures(bo.natures_of_control)
        entries ==
            { <<Slot(i, j) \o f,
                IF j <= Len(active_bos(i)) THEN SlotValue(active_bos(i)[j], f) ELSE PyNone>> :
                    i \in 1..MaxProprietors, j \in 1..MaxSlots, f \in slot_fields }
            \cup { <<P(i) \o "BO_failure",
                     IF Looked(i) /\ founds[i].status # "OK" THEN founds[i].status
                     ELSE PyNone>> : i \in 1..MaxProprietors }
            \cup { <<P(i) \o "number",
                     IF Looked(i) /\ founds[i].comp_number # PyNone
                     THEN founds[i].comp_number ELSE PyNone>> : i \in 1..MaxProprietors }
            \cup { <<P(i) \o "address", founds[i].reg_address>> :
                     i \in {n \in 1..MaxProprietors :
                              Looked(n) /\ founds[n].reg_address # PyNone} }
            \cup { <<"status", "BOs added">> }
    IN  [col \in {e[1] : e \in entries} |-> (CHOOSE e \in entries : e[1] = col)[2]]

\* cursor.execute(sql, params) with the row written through
ExecuteUpdate_ReplaceRow(table, rowid, update_dict) ==
    [table EXCEPT ![rowid] =
        [col \in DOMAIN @ |-> IF col \in DOMAIN update_dict THEN update_dict[col] ELSE PyNone]]

\* cursor.execute(sql, params): UPDATE entities SET "col" = ?, ... WHERE
\* rowid = ?, for the columns of the update dict
ExecuteUpdate(table, rowid, update_dict) ==
    [table EXCEPT ![rowid] =
        [col \in DOMAIN @ |-> IF col \in DOMAIN update_dict THEN update_dict[col] ELSE @[col]]]

\* ProcessAllRecords with the SELECT of a run without filter fetching every row
ProcessAllRecords_SelectsAll(mode, DRY_RUN) ==
    LET P(i) == "proprietor" \o Ch(Digits, i + 1) \o "_"
        Selected(record) ==
            CASE mode = "TITLES_TO_CHECK" -> record["property_title_number"] \in {"T1"}
              [] mode = "COMPANIES_TO_CHECK" ->
                    \E i \in 1..MaxProprietors :
                        /\ record[P(i) \o "name"] # PyNone
                        /\ Contains(str_lower(record[P(i) \o "name"]), "ab")
              [] mode = "FIND_MISSING_NAMES_ONLY" ->
                    \E i \in 1..MaxProprietors :
                        record[P(i) \o "BO_failure"] = "No company found"
              [] OTHER -> TRUE
        rows == SelectSeq([k \in 1..Len(db) |-> k], LAMBDA k : Selected(db[k]))
    IN  /\ run.pc = "idle"
        /\ run' = [pc |-> IF rows = <<>> THEN "done" ELSE "loop", mode |-> mode,
                   DRY_RUN |-> DRY_RUN, rows |-> rows, at |-> 1, txn |-> <<>>,
                   attempt |-> 0, delay |-> 0, slept |-> <<>>]
        /\ UNCHANGED db
        /\ UNCHANGED <<resolver_vars, throttle_vars, records_vars, classify_vars,
                       normalise_vars, registry_vars, parallel_vars, address_call>>

\* process_all_records up to its for statement, for the settings of a run:
\* mode names the first of TITLES_TO_CHECK (['T1']), COMPANIES_TO_CHECK
\* (['ab']) and FIND_MISSING_NAMES_ONLY that is set, "" when none is.  The
\* function returns when the SELECT of the mode gives no row.
ProcessAllRecords(mode, DRY_RUN) ==
    LET P(i) == "proprietor" \o Ch(Digits, i + 1) \o "_"
        Selected(record) ==
            CASE mode = "TITLES_TO_CHECK" -> record["property_title_number"] \in {"T1"}
              [] mode = "COMPANIES_TO_CHECK" ->
                    \E i \in 1..MaxProprietors :
                        /\ record[P(i) \o "name"] # PyNone
                        /\ Contains(str_lower(record[P(i) \o "name"]), "ab")
              [] mode = "FIND_MISSING_NAMES_ONLY" ->
                    \E i \in 1..MaxProprietors :
                        record[P(i) \o "BO_failure"] = "No company found"
              [] OTHER -> record["status"] = PyNone \/ record["status"] # "BOs added"
        rows == SelectSeq([k \in 1..Len(db) |-> k], LAMBDA k : Selected(db[k]))
    IN  /\ run.pc = "idle"
        /\ run' = [pc |-> IF rows = <<>> THEN "done" ELSE "loop", mode |-> mode,
                   DRY_RUN |-> DRY_RUN, rows |-> rows, at |-> 1, txn |-> <<>>,
                   attempt |-> 0, delay |-> 0, slept |-> <<>>]
        /\ UNCHANGED db
        /\ UNCHANGED <<resolver_vars, throttle_vars, records_vars, classify_vars,
                       normalise_vars, registry_vars, parallel_vars, address_call>>

\* One pass of the for statement up to commit_with_retry: the update dict
\* of the row, from what find_BOs_for_company returns for its proprietors
\* with a name, and the UPDATE, which cursor.execute may raise on.  In a
\* dry run nothing is executed and the loop moves on.
ProcessRow(founds, executed) ==
    LET P(i) == "proprietor" \o Ch(Digits, i + 1) \o "_"
        rowid == run.rows[run.at]
        Named(i) == HasName(db[rowid][P(i) \o "name"])
    IN  /\ run.pc = "loop"
        /\ \A i \in 1..MaxProprietors : Named(i) <=> founds[i] # NotLooked
        /\ run' = IF run.DRY_RUN
                  THEN [run EXCEPT !.at = @ + 1,
                                   !.pc = IF run.at = Len(run.rows) THEN "done" ELSE "loop"]
                  ELSE IF ~executed THEN [run EXCEPT !.pc = "raised"]
                  ELSE [run EXCEPT !.pc = "commit",
                                   !.txn = ExecuteUpdate(db, rowid, RowUpdate(founds)),
                                   !.attempt = 0, !.delay = 1, !.slept = <<>>]
        /\ UNCHANGED db
        /\ UNCHANGED <<resolver_vars, throttle_vars, records_vars, classify_vars,
                       normalise_vars, registry_vars, parallel_vars, address_call>>

\* One pass of the while True of commit_with_retry, delays being counted
\* in half seconds: conn.commit() succeeds and the loop of
\* process_all_records moves on, or it raises an OperationalError, which is
\* slept on and retried when the message is 'database is locked' and
\* attempt < MAX_DB_RETRIES, and raised again otherwise.
CommitWithRetry(outcome) ==
    /\ run.pc = "commit"
    /\ CASE outcome = "committed" ->
                /\ db' = run.txn
                /\ run' = [run EXCEPT !.txn = <<>>, !.at = @ + 1,
                                      !.pc = IF run.at = Len(run.rows) THEN "done"
                                             ELSE "loop"]
          [] outcome = "database is locked" /\ run.attempt < MAX_DB_RETRIES ->
                /\ run' = [run EXCEPT !.slept = Append(@, run.delay),
                                      !.attempt = @ + 1,
                                      !.delay = IF 2 * @ < 20 THEN 2 * @ ELSE 20]
                /\ UNCHANGED db
          [] OTHER ->
                /\ run' = [run EXCEPT !.pc = "raised", !.txn = <<>>]
                /\ UNCHANGED db
    /\ UNCHANGED <<resolver_vars, throttle_vars, records_vars, classify_vars,
                   normalise_vars, registry_vars, parallel_vars, address_call>>

\* a run in which process_all_records is not called on a table
RunUnused ==
    /\ db = <<>>
    /\ run = [pc |-> "unused"]

(***************************************************************************)
(* pick_company_address and format_address (roe_2_find_BOs.py)             *)
(***************************************************************************)
\* format_address(addr): the string fields of addr that are not empty, in
\* the order of the function and joined by ', '; None for a value that is
\* not a dict and for a dict with no such field
format_address(addr) ==
    LET keys == <<"premises", "address_line_1", "address_line_2", "locality", "region",
                  "postal_code", "country">>
        Part(k) == IF /\ keys[k] \in DOMAIN addr.members
                      /\ addr.members[keys[k]].type = "str"
                   THEN addr.members[keys[k]].str ELSE ""
        RECURSIVE Join(_, _)
        Join(k, text) ==
            IF k > Len(keys) THEN text
            ELSE Join(k + 1, IF Part(k) = "" THEN text
                             ELSE IF text = "" THEN Part(k)
                             ELSE text \o ", " \o Part(k))
    IN  IF addr.type # "dict" \/ Join(1, "") = "" THEN PyNone ELSE Join(1, "")

\* pick_company_address with the registered office preferred for every type
pick_company_address_RegisteredFirst(profile, company_type, snippet) ==
    LET get(key) == IF key \in DOMAIN profile.members THEN profile.members[key]
                    ELSE PyNoneValue
        registered == format_address(get("registered_office_address"))
    IN  IF profile.type # "dict" \/ DOMAIN profile.members = {} THEN snippet
        ELSE IF registered # PyNone THEN registered ELSE snippet

\* pick_company_address(profile, company_type, snippet)
pick_company_address(profile, company_type, snippet) ==
    LET get(key) == IF key \in DOMAIN profile.members THEN profile.members[key]
                    ELSE PyNoneValue
        \* str(profile.get('type'))
        type_str == IF get("type").type = "str" THEN get("type").str ELSE "None"
        principal == format_address(get("principal_office_address"))
        registered == format_address(get("registered_office_address"))
    IN  IF profile.type # "dict" \/ DOMAIN profile.members = {} THEN snippet
        ELSE IF company_type = ROE \/ type_str = ROE
        THEN IF principal # PyNone THEN principal
             ELSE IF registered # PyNone THEN registered ELSE snippet
        ELSE IF registered # PyNone THEN registered ELSE snippet

\* find_BOs_for_company from the profile to chosen_addr: company_type =
\* (profile.get('type') if profile else '') or '', then pick_company_address
PickCompanyAddress ==
    LET profile == address_call.profile
        company_type ==
            IF /\ profile.type = "dict"
               /\ "type" \in DOMAIN profile.members
               /\ profile.members["type"].type = "str"
            THEN profile.members["type"].str ELSE ""
    IN  /\ address_call.pc = "call"
        /\ address_call' =
              [address_call EXCEPT
                  !.pc = "returned",
                  !.chosen_addr = pick_company_address(profile, company_type,
                                                       address_call.snippet)]
        /\ UNCHANGED <<resolver_vars, throttle_vars, records_vars, classify_vars,
                       normalise_vars, registry_vars, parallel_vars, run_vars>>

ResolverInit ==
    /\ proprietor_cache = [k \in {} |-> NegativeResult]
    /\ gcd_pc = "idle"
    /\ gcd = NoLocals
    /\ search_requests = 0
    /\ throttle_calls = 0
    /\ ncalls = 0
    /\ first_call = [n \in QueryNames |-> NoCall]
    /\ last_call = NoCall

\* a run of the resolver
InitResolver == ResolverInit /\ ThrottleUnused /\ RecordsInit /\ ClassifyUnused /\ NormaliseUnused /\ FetchUnused /\ ParallelUnused /\ RunUnused /\ address_call = [pc |-> "unused"]

SpecResolver ==
    InitResolver /\ [][\/ \E name \in QueryNames : GcdCall(name)
                       \/ \E resp \in SearchResponses : GcdIterate(resp)]_vars

\* a run of the rate limiter, the resolver left out
InitThrottle == ThrottleInit /\ ResolverInit /\ RecordsInit /\ ClassifyUnused /\ NormaliseUnused /\ FetchUnused /\ ParallelUnused /\ RunUnused /\ address_call = [pc |-> "unused"]

\* a run of process_all_records, the resolver and the limiter left out
InitRecords == RecordsInit /\ ResolverInit /\ ThrottleUnused /\ ClassifyUnused /\ NormaliseUnused /\ FetchUnused /\ ParallelUnused /\ RunUnused /\ address_call = [pc |-> "unused"]

SpecRecords ==
    InitRecords /\ [][\/ \E names \in Rows : StartRow(names)
                      \/ ProprietorWithoutName
                      \/ ProprietorCached
                      \/ \E details \in CompanyDetails, resp \in PscResponses :
                            ProprietorLookedUp(details, resp)
                      \/ FinishRow]_vars

SpecThrottle ==
    InitThrottle /\ [][\/ \E late \in 0..MaxLate : throttle_requests(late)
                       \/ \E d \in 1..MaxRequestTime : SendRequest(d)]_vars

\* process_bo_status applied to one row, the other parts left out
InitClassify == ClassifyInit /\ ResolverInit /\ ThrottleUnused /\ RecordsInit /\ NormaliseUnused /\ FetchUnused /\ ParallelUnused /\ RunUnused /\ address_call = [pc |-> "unused"]

SpecClassify == InitClassify /\ [][ProcessBoStatus]_vars

\* normalise_text applied to one text of the model, the other parts left out
InitNormalise ==
    /\ norm_text \in NormaliseTexts
    /\ norm_calls = <<>>
    /\ ResolverInit /\ ThrottleUnused /\ RecordsInit /\ ClassifyUnused /\ FetchUnused /\ ParallelUnused /\ RunUnused /\ address_call = [pc |-> "unused"]

SpecNormalise == InitNormalise /\ [][NormaliseAgain]_vars

\* a run of the three registry operations
InitRegistry == ResolverInit /\ FetchUnused /\ ThrottleUnused /\ RecordsInit /\ ClassifyUnused /\ NormaliseUnused /\ ParallelUnused /\ RunUnused /\ address_call = [pc |-> "unused"]

\* the statements of find_BOs_for_company that use the registry: the name
\* search, then the profile and the controllers of the company found
SpecRegistry ==
    InitRegistry
        /\ [][\/ fetch_pc = "idle" /\ \E name \in QueryNames : GcdCall(name)
              \/ \E resp \in SearchResponses : GcdIterate(resp)
              \/ \E op \in {"get_company_profile", "get_BO_list"} : FetchCall(op)
              \/ FetchThrottle
              \/ \E resp \in FetchResponses : FetchSend(resp)]_vars

\* a run that uses one of the two caches: calls of get_company_details, or
\* rows of process_all_records with their calls of find_BOs_for_company
SpecCaches ==
    InitResolver
        /\ [][\/ rows_done = 0 /\ prop_i = 0 /\ \E name \in QueryNames : GcdCall(name)
              \/ \E resp \in SearchResponses : GcdIterate(resp)
              \/ ncalls = 0 /\ gcd_pc = "idle" /\ \E names \in Rows : StartRow(names)
              \/ ProprietorWithoutName
              \/ ProprietorCached
              \/ \E details \in CompanyDetails, resp \in PscResponses :
                    ProprietorLookedUp(details, resp)
              \/ FinishRow]_vars

\* main up to the for statement of the parallel branch: the table, the
\* settings, the batches of _chunk_generator handed to the pool
InitParallel ==
    /\ \E table \in Tables :
        /\ entities = [k \in 1..MaxTableRows |->
                          [row |-> table[k], reg_status |-> [col \in {} |-> PyNone]]]
        /\ \E chunk_size \in 1..MaxChunkSize :
            /\ \E flush_batch \in 0..MaxFlushBatch, use_wal \in BOOLEAN :
                   settings = [CHUNK_SIZE |-> chunk_size, FLUSH_BATCH |-> flush_batch,
                               USE_WAL |-> use_wal]
            /\ pool = [batches |->
                          [b \in 1..((MaxTableRows + chunk_size - 1) \div chunk_size) |->
                              [n \in 1..(IF b * chunk_size <= MaxTableRows THEN chunk_size
                                         ELSE MaxTableRows - (b - 1) * chunk_size) |->
                                  [rowid |-> (b - 1) * chunk_size + n,
                                   row |-> table[(b - 1) * chunk_size + n]]]],
                       todo |-> 1..((MaxTableRows + chunk_size - 1) \div chunk_size),
                       completed |-> <<>>]
    /\ txn = [open |-> FALSE, entities |-> <<>>]
    /\ main = [pc |-> "pool", pending_updates |-> <<>>, applied |-> 0, flush_at |-> 0,
               totals |-> <<0, 0, 0, 0>>, counters |-> <<0, 0, 0, 0>>, final |-> FALSE,
               failed |-> FALSE]
    /\ last_flush = <<>>
    /\ ResolverInit /\ ThrottleUnused /\ RecordsInit /\ ClassifyUnused /\ NormaliseUnused /\ FetchUnused /\ RunUnused /\ address_call = [pc |-> "unused"]

SpecParallel ==
    InitParallel /\ [][\/ \E b \in 1..MaxTableRows : WorkerProcessRows(b)
                       \/ PoolLoop
                       \/ \E ok \in BOOLEAN : FlushUpdate(ok)
                       \/ FlushCommit
                       \/ CrashMidFlush]_vars

\* The classification phase run on the table after process_all_records is
\* done (the sequential branch of main): process_bo_status is applied to
\* every row and the columns of each update_dict are set; an exception of
\* process_bo_status ends main before its commit.  The controllers of
\* these tables carry no coordinates.
ClassifyAfterRun ==
    LET P(i) == "proprietor" \o Ch(Digits, i + 1) \o "_"
        Slot(i, j) == P(i) \o "BO" \o Ch(Digits, j + 1) \o "_"
        \* the columns of a row that process_bo_status reads
        RowOf(record) ==
            [property_title_number |-> record["property_title_number"],
             proprietors |->
                [i \in 1..MaxProprietors |->
                    [name |-> record[P(i) \o "name"],
                     BO_failure |-> record[P(i) \o "BO_failure"],
                     BO |-> [j \in 1..MaxSlots |->
                                BoSlot(record[Slot(i, j) \o "kind"],
                                       record[Slot(i, j) \o "address"],
                                       record[Slot(i, j) \o "legal_form"],
                                       PyNone,
                                       record[Slot(i, j) \o "natures_of_control"],
                                       record[Slot(i, j) \o "name"])]]]]
        \* UPDATE entities SET the columns of update_dict WHERE rowid = ?
        Updated(record, update_dict) ==
            [col \in DOMAIN record |->
                IF col \in DOMAIN update_dict THEN update_dict[col] ELSE record[col]]
        \* the end of main, outs[k] being what process_bo_status gave for row k
        Finish(outs) ==
            IF \A k \in DOMAIN db : outs[k].outcome = "returned"
            THEN /\ db' = [k \in DOMAIN db |-> Updated(db[k], outs[k].update_dict)]
                 /\ run' = [run EXCEPT !.pc = "classified"]
            ELSE /\ db' = db
                 /\ run' = [run EXCEPT !.pc = "classification raised"]
    IN  /\ run.pc = "done"
        /\ Finish([k \in DOMAIN db |-> process_bo_status(RowOf(db[k]))])
        /\ UNCHANGED <<resolver_vars, throttle_vars, records_vars, classify_vars,
                       normalise_vars, registry_vars, parallel_vars, address_call>>

\* A run of process_all_records on a table as the earlier runs left it:
\* each row is as imported (with a name or a blank name) or as a run wrote
\* it for one of the results of find_BOs_for_company; the geocoding, the
\* property metadata and the status labels belong to other stages.
InitRun ==
    LET P(i) == "proprietor" \o Ch(Digits, i + 1) \o "_"
        Slot(i, j) == P(i) \o "BO" \o Ch(Digits, j + 1) \o "_"
        columns ==
            {"property_title_number", "status", "latitude", "tenure"}
            \cup {P(i) \o f : i \in 1..MaxProprietors,
                              f \in {"name", "BO_failure", "number", "address"}}
            \cup {Slot(i, j) \o f : i \in 1..MaxProprietors, j \in 1..MaxSlots,
                    f \in {"name", "legal_form", "ceased", "kind", "address",
                           "is_sanctioned", "natures_of_control", "reg_status"}}
        Imported(k, name) ==
            [col \in columns |->
                CASE col = "property_title_number" -> "T" \o Ch(Digits, k + 1)
                  [] col = "latitude" -> "53.8"
                  [] col = "tenure" -> "Freehold"
                  [] col \in {P(i) \o "name" : i \in 1..MaxProprietors} -> name
                  [] OTHER -> PyNone]
        Labelled(record) ==
            [record EXCEPT ![Slot(1, 1) \o "reg_status"] =
                IF record[Slot(1, 1) \o "name"] # PyNone THEN "individual" ELSE PyNone]
        Written(k, found) ==
            Labelled(ExecuteUpdate(<<Imported(k, "Ab Ltd")>>, 1,
                                   RowUpdate([i \in 1..MaxProprietors |-> found]))[1])
        RowsAt(k) == {Imported(k, "Ab Ltd"), Imported(k, "  ")}
                        \cup {Written(k, found) : found \in RunFounds}
    IN  /\ db \in {table \in [1..MaxRunRows -> UNION {RowsAt(k) : k \in 1..MaxRunRows}] :
                     \A k \in 1..MaxRunRows : table[k] \in RowsAt(k)}
        /\ run = [pc |-> "idle", mode |-> "", DRY_RUN |-> FALSE, rows |-> <<>>, at |-> 0,
                  txn |-> <<>>, attempt |-> 0, delay |-> 0, slept |-> <<>>]
        /\ ResolverInit /\ ThrottleUnused /\ RecordsInit /\ ClassifyUnused /\ NormaliseUnused /\ FetchUnused /\ ParallelUnused /\ address_call = [pc |-> "unused"]

SpecRun ==
    InitRun /\ [][\/ \E mode \in {"", "TITLES_TO_CHECK", "COMPANIES_TO_CHECK",
                                  "FIND_MISSING_NAMES_ONLY"}, DRY_RUN \in BOOLEAN :
                       ProcessAllRecords(mode, DRY_RUN)
                  \/ \E founds \in [1..MaxProprietors -> RunFounds \cup {NotLooked}],
                        executed \in BOOLEAN : ProcessRow(founds, executed)
                  \/ \E outcome \in {"committed", "database is locked", "disk I/O error"} :
                       CommitWithRetry(outcome)]_vars

\* a run of process_all_records followed by the classification phase
SpecPhases ==
    InitRun /\ [][\/ \E mode \in {"", "TITLES_TO_CHECK", "COMPANIES_TO_CHECK",
                                  "FIND_MISSING_NAMES_ONLY"}, DRY_RUN \in BOOLEAN :
                       ProcessAllRecords(mode, DRY_RUN)
                  \/ \E founds \in [1..MaxProprietors -> RunFounds \cup {NotLooked}],
                        executed \in BOOLEAN : ProcessRow(founds, executed)
                  \/ \E outcome \in {"committed", "database is locked", "disk I/O error"} :
                       CommitWithRetry(outcome)
                  \/ ClassifyAfterRun]_vars

\* pick_company_address applied to what get_company_profile and
\* get_company_details returned: no profile (None, or an empty dict), or a
\* profile with or without a type, whose principal and registered office
\* addresses are missing, null, a string, or a dict with fields of
\* format_address, with empty fields only or with other fields only; the
\* snippet is a string or None.
InitAddress ==
    LET Str(members) == PyDict([k \in DOMAIN members |-> PyStr(members[k])])
        Addresses(road) ==
            { [absent |-> TRUE],
              PyNoneValue,
              PyStr(road),
              Str([address_line_1 |-> road, locality |-> "Leeds", care_of |-> "Ann Lee"]),
              Str([address_line_1 |-> "", country |-> ""]),
              Str([po_box |-> "PO Box 1"]) }
        Profile(type, principal, registered) ==
            LET present == {<<"type", type>>, <<"principal_office_address", principal>>,
                            <<"registered_office_address", registered>>,
                            <<"company_name", PyStr("AB LTD")>>}
                kept == {p \in present : "absent" \notin DOMAIN p[2]}
            IN  PyDict([k \in {p[1] : p \in kept} |-> (CHOOSE p \in kept : p[1] = k)[2]])
        Profiles ==
            {PyNoneValue, PyDict([k \in {} |-> PyNoneValue])} \cup
            { Profile(type, principal, registered) :
                type \in {PyStr(ROE), PyStr(OVERSEA), [absent |-> TRUE]},
                principal \in Addresses("1 Principal Road"),
                registered \in Addresses("2 Registered Street") }
    IN  /\ address_call \in { [pc |-> "call", profile |-> profile, snippet |-> snippet,
                               chosen_addr |-> PyNone] :
                                profile \in Profiles, snippet \in {PyNone, "3 Snippet Way"} }
        /\ ResolverInit /\ ThrottleUnused /\ RecordsInit /\ ClassifyUnused
        /\ NormaliseUnused /\ FetchUnused /\ ParallelUnused /\ RunUnused

SpecAddress == InitAddress /\ [][PickCompanyAddress]_vars

(***************************************************************************)
(* Claims about the resolver                                               *)
(***************************************************************************)
\* C1 as stated: when get_company_details(name) returns for a name it has
\* already returned for, it returns the same result, sends no search
\* request, and the two calls together have sent at most one search request.
C1_TwoCallsAtMostOneRequest ==
    (last_call # NoCall /\ last_call.repeat) =>
        /\ last_call.result = first_call[last_call.name].result
        /\ last_call.requests = 0
        /\ first_call[last_call.name].requests + last_call.requests <= 1

\* C1 as amended: when get_company_details(name) returns for a name it has
\* already returned for, it returns the result of the first call and has
\* sent no search request; the first call may have sent several (one per
\* page searched and per retry).
C1_RepeatSendsNoRequest ==
    (last_call # NoCall /\ last_call.repeat) =>
        /\ last_call.result = first_call[last_call.name].result
        /\ last_call.requests = 0

\* C1's case: a name is resolved again after a first resolution that went to
\* the registry more than once.
C1_Witness ==
    /\ last_call # NoCall
    /\ last_call.repeat
    /\ first_call[last_call.name].requests >= 2

(***************************************************************************)
(* Claims about the rate limiter                                           *)
(***************************************************************************)
\* C2: with the limiter set to N requests per period P, no window of length
\* P (a window [t, t+P) of P ticks) holds more than N recorded timestamps,
\* that is, any N+1 recorded timestamps span at least P; and a call that
\* found the window full recorded its timestamp only once the oldest
\* timestamp of the deque was at least P old.
C2_WindowNeverOverfull ==
    /\ \A i, j \in 1..Len(recorded) :
          j >= i + companies_house_rate_limit
              => recorded[j] - recorded[i] >= companies_house_rate_period
    /\ blocked_on # NotBlocked
          => recorded[Len(recorded)] >= blocked_on + companies_house_rate_period

\* C2 witness: a call found the window full, slept, and recorded its
\* timestamp exactly one period after the oldest one.
C2_Witness ==
    /\ blocked_on # NotBlocked
    /\ Len(recorded) > companies_house_rate_limit
    /\ recorded[Len(recorded)] = blocked_on + companies_house_rate_period
    /\ recorded[Len(recorded)] > recorded[Len(recorded) - 1]

(***************************************************************************)
(* Claims about the BO slots                                               *)
(***************************************************************************)
\* the positions of the items of a controller list that the ceased test
\* does not take for ceased
ActivePositions(bos) == {k \in 1..Len(bos) : ~is_ceased_beneficial_owner(bos[k])}

\* C3: no controller for which the ceased test is true is written to a BO
\* slot: for every proprietor done and every item of the list the registry
\* returned for it, a ceased item occupies none of the four slots.
C3_NoCeasedInSlots ==
    \A i \in 1..Len(update) :
        bo_found[i] # NotLooked =>
            \A k \in 1..Len(bo_found[i].bos) :
                is_ceased_beneficial_owner(bo_found[i].bos[k]) =>
                    \A j \in 1..4 :
                        /\ update[i].slots[j] # SlotOf(bo_found[i].bos[k])
                        /\ update[i].slots[j].name # bo_found[i].bos[k].name

\* C3 witness: slots were written from a list whose first item is ceased
\* and which has ceased items after active ones too.
C3_Witness ==
    \E i \in 1..Len(update) :
        /\ bo_found[i] # NotLooked
        /\ Len(bo_found[i].bos) >= 3
        /\ is_ceased_beneficial_owner(bo_found[i].bos[1])
        /\ ~is_ceased_beneficial_owner(bo_found[i].bos[2])
        /\ is_ceased_beneficial_owner(bo_found[i].bos[3])
        /\ update[i].slots[1].name = bo_found[i].bos[2].name

\* C4: the slots 1..k of a proprietor, k = min(4, number of active items),
\* hold the first k non-ceased controllers in registry order, and the
\* slots after k are empty.
C4_FirstFourActive ==
    LET \* the j-th smallest element of a set of positions
        NthOf(positions, j) ==
            CHOOSE k \in positions : Cardinality({a \in positions : a <= k}) = j
        FirstFour(slots, bos, active) ==
            \A j \in 1..4 :
                slots[j] = IF j <= Cardinality(active) THEN SlotOf(bos[NthOf(active, j)])
                           ELSE EmptySlot
    IN  \A i \in 1..Len(update) :
            bo_found[i] # NotLooked =>
                FirstFour(update[i].slots, bo_found[i].bos,
                          ActivePositions(bo_found[i].bos))

\* C4 witness: a list of more than four active items with ceased items
\* among the first four positions, so that slot 4 holds a later item.
C4_Witness ==
    \E i \in 1..Len(update) :
        /\ bo_found[i] # NotLooked
        /\ Cardinality(ActivePositions(bo_found[i].bos)) >= 4
        /\ is_ceased_beneficial_owner(bo_found[i].bos[1])
        /\ update[i].slots[4].name = bo_found[i].bos[5].name

\* C5: a proprietor that resolved to a company and has no active controller
\* is recorded with the failure "No BO", also when the registry returned a
\* non-empty list of ceased controllers.
C5_NoActiveMeansNoBO ==
    \A i \in 1..Len(update) :
        (/\ bo_found[i] # NotLooked
         /\ bo_found[i].status # "No company found"
         /\ ActivePositions(bo_found[i].bos) = {})
            => update[i].BO_failure = "No BO"


(***************************************************************************)
(* Claims about the classification engine                                  *)
(***************************************************************************)
\* the slots of the row that hold a controller, as <<proprietor, slot>>
FilledSlots ==
    { p \in (1..MaxProprietors) \X (1..MaxSlots) :
        ~Blank(bo_row.proprietors[p[1]].BO[p[2]].kind) }

\* the columns of the slot p
SlotAt(p) == bo_row.proprietors[p[1]].BO[p[2]]

\* the slots that hold a controller of a corporate kind
CorporateFilled == {p \in FilledSlots : strip(SlotAt(p).kind) \in corporate_kinds}

\* process_bo_status has returned its update_dict
ReturnedResult == bo_result.outcome = "returned"

\* the status the returned update_dict holds for the slot p
StatusOf(p) == bo_result.update_dict[reg_status_col(p[1], p[2])]

\* a natures text that is present and does not parse as a list of codes
MalformedNatures(text) ==
    LET IsCodeList(parsed) ==
            /\ parsed.ok
            /\ parsed.val.type = "list"
            /\ \A n \in 1..Len(parsed.val.items) :
                  parsed.val.items[n].type \in {"str", "NoneType"}
    IN  ~Blank(text) /\ ~IsCodeList(literal_eval(text))

\* C6: once process_bo_status has run on a row, every slot with a non-empty
\* kind whose natures_of_control text does not parse as a list of codes has
\* made it raise the RuntimeError that names the title and the proprietor
\* and BO of such a slot, so that no status is returned for the row,
\* whatever the kind of the controller.
C6_MalformedNaturesRaise ==
    bo_result # NotProcessed =>
        \A p \in FilledSlots :
            MalformedNatures(SlotAt(p).natures_of_control) =>
                /\ bo_result.outcome = "RuntimeError"
                /\ bo_result.title = bo_row.property_title_number
                /\ <<bo_result.proprietor, bo_result.BO>> \in FilledSlots
                /\ MalformedNatures(
                       SlotAt(<<bo_result.proprietor, bo_result.BO>>).natures_of_control)

\* C7: in a returned update_dict the status of every corporate controller
\* is the label of the first test it passes in the order UK, listed,
\* government-owned, manually-excluded, trustee, suspect; so a later label
\* is written only when every earlier test failed, a controller with a
\* trustee code that passes none of the four earlier tests is a trustee,
\* and one that passes no test is suspect.
C7_FirstMatchInOrder ==
    LET \* the tests of the decision order, in order, for a corporate controller
        TierTests(slot) ==
            << in_uk_of(slot) = "yes",
               is_listed_company(slot.name),
               is_government_owned(slot.name),
               is_it_excluded(slot.name),
               trustee_control(slot.natures_of_control) = "yes",
               TRUE >>
        \* the first test of the sequence that succeeds
        FirstTrue(tests) ==
            CHOOSE k \in 1..Len(tests) : tests[k] /\ \A m \in 1..(k - 1) : ~tests[m]
    IN  ReturnedResult =>
            \A p \in CorporateFilled :
                StatusOf(p) =
                    << "UK", "listed", "government-owned", "manually-excluded", "trustee",
                       "suspect" >>[FirstTrue(TierTests(SlotAt(p)))]

\* the slot p holds a corporate controller registered in England and Wales
\* whose address ends in no excluded suffix and whose natures are codes
RegisteredInEnglandAndWales(p) ==
    LET \* the country_registered field of a parsed legal form matches
        \* "england and wales" at the threshold of is_uk_a_fuzzy_match
        CountryIsEnglandAndWales(parsed) ==
            /\ parsed.ok
            /\ parsed.val.type = "dict"
            /\ "country_registered" \in DOMAIN parsed.val.members
            /\ parsed.val.members["country_registered"].type = "str"
            /\ ratio_at_least(UkCandidate(parsed.val.members["country_registered"].str),
                              "england and wales", 85)
    IN  /\ p \in CorporateFilled
        /\ ~Blank(SlotAt(p).legal_form)
        /\ CountryIsEnglandAndWales(json_loads(SlotAt(p).legal_form))
        /\ ~address_excluded(OrEmpty(SlotAt(p).address))
        /\ ~MalformedNatures(SlotAt(p).natures_of_control)

\* C8: a corporate controller whose country_registered field fuzzily
\* matches "England and Wales" and whose address does not end in an
\* excluded suffix is labelled UK, whatever else its address holds and
\* whatever its name, its coordinates and its nature-of-control codes;
\* the row goes without labels only when another of its controllers stops
\* process_bo_status.
C8_UkByCountryRegistered ==
    LET \* the slot q stops process_bo_status with an exception
        SlotRaises(q) ==
            slot_outcome(bo_row.property_title_number, q[1], q[2], SlotAt(q)).raised
    IN  bo_result # NotProcessed =>
            \A p \in FilledSlots :
                RegisteredInEnglandAndWales(p) =>
                    IF ReturnedResult THEN StatusOf(p) = "UK"
                    ELSE \E q \in FilledSlots \ {p} : SlotRaises(q)

\* C8 witness: a listed trustee at "Jersey House, 2 Guernsey Road, London"
\* with coordinates in Jersey, registered in "Englnd and Wales", is
\* labelled UK.
C8_Witness ==
    /\ ReturnedResult
    /\ \E p \in FilledSlots :
          /\ RegisteredInEnglandAndWales(p)
          /\ Contains(SlotAt(p).address, "Jersey")
          /\ SlotAt(p).latlon = "(49.2, -2.1)"
          /\ is_listed_company(SlotAt(p).name)
          /\ trustee_control(SlotAt(p).natures_of_control) = "yes"
          /\ StatusOf(p) = "UK"

\* the slot p holds a corporate controller named as a listed company is
NamedAsListed(p) ==
    LET \* name equals entry once both are lower-cased and their diacritics folded
        FoldedEqual(name, entry) == _fold(str_lower(name)) = _fold(str_lower(entry))
    IN  /\ p \in CorporateFilled
        /\ SlotAt(p).name # PyNone
        /\ \E entry \in ListedCompanyNames : FoldedEqual(SlotAt(p).name, entry)

\* C9: in a returned update_dict a corporate controller whose name equals
\* an entry of the listed-companies reference set after case and diacritic
\* folding is labelled listed unless it is labelled UK.
C9_ListedByFoldedName ==
    ReturnedResult =>
        \A p \in FilledSlots : NamedAsListed(p) => StatusOf(p) \in {"UK", "listed"}

\* C9 witness: a controller that is not in the UK, whose name differs from
\* the listed entry in case and diacritics only and is also a manual
\* exclusion, is labelled listed.
C9_Witness ==
    /\ ReturnedResult
    /\ \E p \in FilledSlots :
          /\ NamedAsListed(p)
          /\ SlotAt(p).name \notin ListedCompanyNames
          /\ is_it_excluded(SlotAt(p).name)
          /\ StatusOf(p) = "listed"

\* C10: in a returned update_dict every controller of an individual kind
\* is labelled individual and every controller of a super-secure kind is
\* labelled super-secure, for every kind the registry uses for them.
C10_IndividualAndSuperSecure ==
    LET \* the kinds the registry uses for individuals
        IndividualKinds == {kind \in BO_KIND_TO_ID : StartsAt(kind, 1, "individual-")}
        \* the kinds the registry uses for controllers it suppresses
        SuperSecureKinds == {kind \in BO_KIND_TO_ID : StartsAt(kind, 1, "super-secure-")}
    IN  ReturnedResult =>
            \A p \in FilledSlots :
                /\ strip(SlotAt(p).kind) \in IndividualKinds => StatusOf(p) = "individual"
                /\ strip(SlotAt(p).kind) \in SuperSecureKinds
                      => StatusOf(p) = "super-secure"

\* C11: every status label in a returned update_dict is one of the eight
\* labels individual, super-secure, UK, listed, government-owned,
\* manually-excluded, trustee, suspect.
C11_StatusLabelsAreTheEight ==
    ReturnedResult =>
        \A p \in FilledSlots :
            StatusOf(p) \in { "individual", "super-secure", "UK", "listed",
                              "government-owned", "manually-excluded", "trustee",
                              "suspect" }

(***************************************************************************)
(* Claims about normalise_text                                             *)
(***************************************************************************)
\* C12: normalising a text twice gives what normalising it once gives:
\* normalise_text(normalise_text(s)) = normalise_text(s), also for a text
\* whose letter groups merge into a removable token only once whitespace
\* and punctuation are stripped.
C12_NormaliseIdempotent ==
    Len(norm_calls) >= 2 => norm_calls[2] = norm_calls[1]

\* C13: two spellings of one legal suffix (dotted, undotted or
\* space-separated) appended to the same name have the same normal form.
C13_SuffixSpellingsAgree ==
    \A group \in SuffixSpellings :
        (norm_calls # <<>> /\ norm_text.suffix \in group) =>
            \A spelling \in group :
                norm_calls[1] = normalise_text(norm_text.name \o " " \o spelling)


(***************************************************************************)
(* Claims about the three registry operations                              *)
(***************************************************************************)
\* C14: in the name search, the profile fetch and the controller fetch a
\* 404 or 403 response ends the operation with its empty or negative
\* result and is never retried.
C14_NotFoundForbiddenNeverRetried ==
    /\ [](fetch.response \cap {404, 403} # {} =>
            /\ fetch_pc = "returned"
            /\ fetch.result = IF fetch.op = "get_company_profile" THEN PyNoneValue
                              ELSE PyDict([key \in {"items"} |-> PyList(<<>>)]))
    /\ [][\A c \in {404, 403} :
            GcdIterate([status |-> c]) =>
                gcd_pc' = "idle" /\ last_call'.result = NegativeResult]_vars

\* C15: no registry operation surfaces a transient error: after a 502, a
\* 429 whatever its Retry-After header, another unexpected status or an
\* exception of the request, the operation is in its loop to send the
\* request again; it neither returns nor raises.
C15_TransientErrorsAreRetried ==
    /\ [](fetch.response \cap {502, 500, 429, RequestException} # {} =>
            fetch_pc \in {"loop", "send"})
    /\ [][\A resp \in {r \in SearchResponses :
                          r.status \in {502, 500, 429, RequestException}} :
            GcdIterate(resp) => gcd_pc' = "loop"]_vars

\* C16: every request sent to the registry, retries and further search
\* pages included, follows exactly one throttle_requests call: the calls of
\* throttle_requests are as many as the requests sent, plus the one whose
\* request is about to be sent.
C16_OneThrottlePerRequest ==
    /\ throttle_calls = search_requests
    /\ fetch.throttle_calls = fetch.requests + (IF fetch_pc = "send" THEN 1 ELSE 0)

\* C16 witness: a name search that sent two requests, and after it a
\* profile fetch and a controller fetch that have sent three requests, one
\* of them a retry, have all returned.
C16_Witness ==
    /\ last_call # NoCall
    /\ last_call.requests = 2
    /\ fetch_pc = "returned"
    /\ fetch.op = "get_BO_list"
    /\ fetch.requests = 3


(***************************************************************************)
(* Claims about the parallel branch of main                                *)
(***************************************************************************)
\* C17: no worker writes to the store.  A transaction is open only while
\* the coordinating process is inside flush_pending, and every step that
\* changes the table or the transaction is a step of the coordinating
\* process: it takes no batch, delivers no result, and moves main.
C17_OnlyCoordinatorWrites ==
    /\ [](txn.open => main.pc = "flush")
    /\ [][(entities' # entities \/ txn' # txn) =>
            /\ pool'.todo = pool.todo
            /\ Len(pool'.completed) <= Len(pool.completed)
            /\ main' # main]_vars

\* C17 witness: updates have been committed to the table while workers
\* still have batches to finish.
C17_Witness ==
    /\ pool.todo # {}
    /\ ~txn.open
    /\ \E k \in 1..Len(entities) : DOMAIN entities[k].reg_status # {}

\* C18: whatever the order in which the batches complete and wherever the
\* intermediate flushes fall, a run of the parallel branch in which every
\* UPDATE succeeded ends as the sequential branch ends on the same rows:
\* with the same table and, when it reaches the summary, the same totals.
C18_ParallelEqualsSequential ==
    LET \* the table as main found it, from the batches dispatched
        Dispatched(k) ==
            pool.batches[((k - 1) \div settings.CHUNK_SIZE) + 1]
                        [((k - 1) % settings.CHUNK_SIZE) + 1]
        Same(sequential) ==
            /\ main.pc = sequential.pc
            /\ entities = sequential.entities
            /\ main.pc = "done" =>
                   \A n \in 1..4 : main.totals[n] = sequential.totals[n]
    IN  (main.pc \in {"done", "aborted"} /\ ~main.failed) =>
            Same(main_sequential([k \in 1..Len(entities) |->
                                     [row |-> Dispatched(k).row,
                                      reg_status |-> [col \in {} |-> PyNone]]]))

\* C19: a flush is all-or-nothing.  Of the updates that the last
\* flush_pending found pending, the table holds either every one or none,
\* during the flush and after it, however it ended.
C19_FlushAllOrNothing ==
    LET Stored(rowid, col, value) ==
            \/ /\ col \in DOMAIN entities[rowid].reg_status
               /\ entities[rowid].reg_status[col] = value
            \/ \E i \in 1..MaxProprietors :
                /\ col = "proprietor" \o Ch(Digits, i + 1) \o "_BO_failure"
                /\ entities[rowid].row.proprietors[i].BO_failure = value
        InStore(u) == \A col \in DOMAIN u[2] : Stored(u[1], col, u[2][col])
        AllOrNone(held) == held = {} \/ held = 1..Len(last_flush)
    IN  AllOrNone({k \in 1..Len(last_flush) : InStore(last_flush[k])})

\* C20: re-applying classification changes nothing.  When the run is over,
\* executing again an update of the last flush that the table holds leaves
\* the table as it is, and so does classifying again any row the run has
\* updated and executing the update that gives.
C20_ReapplyingChangesNothing ==
    LET Dispatched(k) ==
            pool.batches[((k - 1) \div settings.CHUNK_SIZE) + 1]
                        [((k - 1) % settings.CHUNK_SIZE) + 1]
        Updated(k) ==
            entities[k] # [row |-> Dispatched(k).row, reg_status |-> [col \in {} |-> PyNone]]
        Stored(rowid, col, value) ==
            \/ /\ col \in DOMAIN entities[rowid].reg_status
               /\ entities[rowid].reg_status[col] = value
            \/ \E i \in 1..MaxProprietors :
                /\ col = "proprietor" \o Ch(Digits, i + 1) \o "_BO_failure"
                /\ entities[rowid].row.proprietors[i].BO_failure = value
        InStore(u) == \A col \in DOMAIN u[2] : Stored(u[1], col, u[2][col])
        Again(k, second) ==
            /\ second.outcome = "returned"
            /\ DOMAIN second.update_dict # {} =>
                   update_record_with_retry(entities, k, second.update_dict) = entities
    IN  main.pc \in {"done", "aborted", "crashed"} =>
            /\ \A n \in 1..Len(last_flush) :
                   InStore(last_flush[n]) =>
                       update_record_with_retry(entities, last_flush[n][1],
                                                last_flush[n][2]) = entities
            /\ \A k \in 1..Len(entities) :
                   Updated(k) => Again(k, process_bo_status(entities[k].row))

\* C20 witness: a finished run whose table holds, for a row it read with
\* the failure "No BO", the cleared failure and a status label, both
\* written by the last flush.
C20_Witness ==
    /\ main.pc = "done"
    /\ \E n \in 1..Len(last_flush) :
        /\ pool.batches[1][1].row.proprietors[1].BO_failure = "No BO"
        /\ last_flush[n][1] = 1
        /\ entities[1].row.proprietors[1].BO_failure = PyNone
        /\ DOMAIN entities[1].reg_status # {}

\* C21: a store write that stays locked is surfaced as a fatal error for
\* that write.  For the row update of the classification phase: a run in
\* which update_record_with_retry gave up on a row (the database stayed
\* locked for its five attempts, or the UPDATE was in error) does not end as
\* a completed run.
C21_FailedWriteIsFatal == main.pc = "done" => ~main.failed

\* C22: a classification run in which process_bo_status raises halts
\* without partial classifications.  When main is left by the exception of
\* a row, the table holds the update of no row: every row is as it was
\* dispatched and has no status label.
C22_RaiseLeavesNoLabels ==
    LET Dispatched(k) ==
            pool.batches[((k - 1) \div settings.CHUNK_SIZE) + 1]
                        [((k - 1) % settings.CHUNK_SIZE) + 1]
    IN  main.pc = "aborted" =>
            \A k \in 1..Len(entities) :
                entities[k] = [row |-> Dispatched(k).row,
                               reg_status |-> [col \in {} |-> PyNone]]

(***************************************************************************)
(* Claims about the writes of the two phases                               *)
(***************************************************************************)
\* a run of the resolution phase or a run of the classification phase
SpecWrites ==
    (InitRun \/ InitParallel)
        /\ [][\/ \E mode \in {"", "TITLES_TO_CHECK", "COMPANIES_TO_CHECK",
                              "FIND_MISSING_NAMES_ONLY"}, DRY_RUN \in BOOLEAN :
                   ProcessAllRecords(mode, DRY_RUN)
              \/ \E founds \in [1..MaxProprietors -> RunFounds \cup {NotLooked}],
                    executed \in BOOLEAN : ProcessRow(founds, executed)
              \/ \E outcome \in {"committed", "database is locked", "disk I/O error"} :
                   CommitWithRetry(outcome)
              \/ \E b \in 1..MaxTableRows : WorkerProcessRows(b)
              \/ PoolLoop
              \/ \E ok \in BOOLEAN : FlushUpdate(ok)
              \/ FlushCommit
              \/ CrashMidFlush]_vars

\* C23: the core writes back only the columns it computes.  No step of
\* process_all_records changes, in any row of the table, a column other
\* than the number, the address and the BO_failure of a proprietor, the
\* seven fields of a BO slot and status; and the table of a classification
\* run differs from the rows dispatched only in BO_failure columns and in
\* reg_status columns.
C23_OnlyComputedColumnsWritten ==
    /\ [][LET P(i) == "proprietor" \o Ch(Digits, i + 1) \o "_"
              Slot(i, j) == P(i) \o "BO" \o Ch(Digits, j + 1) \o "_"
              resolved ==
                  {"status"}
                  \cup {P(i) \o f : i \in 1..4, f \in {"number", "address", "BO_failure"}}
                  \cup {Slot(i, j) \o f : i \in 1..4, j \in 1..4,
                          f \in {"name", "legal_form", "ceased", "kind", "address",
                                 "is_sanctioned", "natures_of_control"}}
          IN  \A k \in DOMAIN db : \A col \in (DOMAIN db[k]) \ resolved :
                  db'[k][col] = db[k][col]]_vars
    /\ [](LET Dispatched(k) ==
                  pool.batches[((k - 1) \div settings.CHUNK_SIZE) + 1]
                              [((k - 1) % settings.CHUNK_SIZE) + 1]
              SameBut_BO_failure(new, old) ==
                  new = [old EXCEPT !.proprietors =
                            [i \in DOMAIN old.proprietors |->
                                [old.proprietors[i] EXCEPT
                                    !.BO_failure = new.proprietors[i].BO_failure]]]
          IN  \A k \in DOMAIN entities :
                  /\ SameBut_BO_failure(entities[k].row, Dispatched(k).row)
                  /\ DOMAIN entities[k].reg_status \subseteq
                        {reg_status_col(i, j) : i \in 1..4, j \in 1..4})

\* C23 witness: a run without filter has written and committed a row that
\* was not marked: the row has its status, the number of its proprietor and
\* the fields of a BO slot, and its geocoding and metadata columns.
C23_Witness ==
    /\ run.pc = "done"
    /\ run.mode = ""
    /\ \E n \in 1..Len(run.rows) :
        /\ db[run.rows[n]]["status"] = "BOs added"
        /\ db[run.rows[n]]["proprietor1_number"] = "OE1"
        /\ db[run.rows[n]]["proprietor1_BO1_name"] = "Ann Lee"
        /\ db[run.rows[n]]["latitude"] = "53.8"
        /\ db[run.rows[n]]["tenure"] = "Freehold"

(***************************************************************************)
(* Claims about the runs of process_all_records                            *)
(***************************************************************************)
\* C24 as stated: every row a run without filter has processed is marked
\* 'BOs added', such a run fetches exactly the rows not so marked, in the
\* order of the table, and none of its steps changes a row so marked.
C24_EveryProcessedRowMarked ==
    /\ [](run.mode = "" =>
            \A n \in 1..(run.at - 1) : db[run.rows[n]]["status"] = "BOs added")
    /\ [][run'.mode = "" =>
            /\ run.pc = "idle" /\ run'.pc # "idle" =>
                  run'.rows = SelectSeq([k \in 1..Len(db) |-> k],
                                        LAMBDA k : db[k]["status"] # "BOs added")
            /\ \A k \in DOMAIN db : db[k]["status"] = "BOs added" => db'[k] = db[k]]_vars

\* C24: every row a run without filter that is not a dry run has processed
\* is marked 'BOs added'; a run without filter, dry or not, fetches exactly
\* the rows not so marked, in the order of the table, and none of its steps
\* changes a row so marked.
C24_ProcessedRowMarkedUnlessDryRun ==
    /\ [](run.mode = "" /\ ~run.DRY_RUN =>
            \A n \in 1..(run.at - 1) : db[run.rows[n]]["status"] = "BOs added")
    /\ [][run'.mode = "" =>
            /\ run.pc = "idle" /\ run'.pc # "idle" =>
                  run'.rows = SelectSeq([k \in 1..Len(db) |-> k],
                                        LAMBDA k : db[k]["status"] # "BOs added")
            /\ \A k \in DOMAIN db : db[k]["status"] = "BOs added" => db'[k] = db[k]]_vars

\* C24 witness: on a table with a marked row and a row not marked, a run
\* without filter that is not a dry run has fetched one row, written it and
\* ended, and every row is marked.
C24_Witness ==
    /\ run.pc = "done"
    /\ run.mode = "" /\ ~run.DRY_RUN
    /\ Len(run.rows) = 1 /\ run.at = 2
    /\ \A k \in DOMAIN db : db[k]["status"] = "BOs added"

\* C25: the re-check of the proprietors.  In what process_bo_status
\* returns, the BO_failure of a proprietor recorded as "No BO" whose own
\* name is found in the listed, government-owned or manual-exclusion names
\* is set to None; the BO_failure of a proprietor recorded as "No company
\* found", and of a "No BO" proprietor found in none of them, is not in the
\* update.
C25_NoBoRecheck ==
    LET update_dict == bo_result.update_dict
        BO_failure_col(i) == "proprietor" \o Ch(Digits, i + 1) \o "_BO_failure"
        InReferenceSet(name) ==
            \/ is_listed_company(name)
            \/ is_government_owned(name)
            \/ is_it_excluded(name)
        Cleared(i) ==
            /\ BO_failure_col(i) \in DOMAIN update_dict
            /\ update_dict[BO_failure_col(i)] = PyNone
        Rechecked(prop, i) ==
            CASE prop.BO_failure = "No BO" /\ InReferenceSet(prop.name) -> Cleared(i)
              [] prop.BO_failure \in {"No BO", "No company found"} ->
                    BO_failure_col(i) \notin DOMAIN update_dict
              [] OTHER -> TRUE
    IN  bo_result.outcome = "returned" =>
            \A i \in 1..MaxProprietors : Rechecked(bo_row.proprietors[i], i)

\* C25 witness: a proprietor recorded as "No BO" whose name is that of a
\* government-owned company has its failure cleared.
C25_Witness ==
    /\ bo_result.outcome = "returned"
    /\ bo_row.proprietors[1].name = "Oman Oil SA"
    /\ bo_row.proprietors[1].BO_failure = "No BO"
    /\ "proprietor1_BO_failure" \in DOMAIN bo_result.update_dict
    /\ bo_result.update_dict["proprietor1_BO_failure"] = PyNone

(***************************************************************************)
(* Claims about the display address                                        *)
(***************************************************************************)
\* C26: the display address by preference order.  An address is present in
\* a profile when it is an object with at least one non-empty text among
\* premises, address_line_1, address_line_2, locality, region, postal_code
\* and country.  Without a profile the snippet is chosen; for a profile of
\* type registered-overseas-entity the principal office address if
\* present, else the registered office address if present, else the
\* snippet; for any other profile the registered office address if present,
\* else the snippet.
C26_AddressByPreference ==
    LET profile == address_call.profile
        NoProfile == profile.type # "dict" \/ DOMAIN profile.members = {}
        HasText(addr, field) ==
            /\ field \in DOMAIN addr.members
            /\ addr.members[field].type = "str"
            /\ addr.members[field].str # ""
        Present(key) ==
            /\ key \in DOMAIN profile.members
            /\ profile.members[key].type = "dict"
            /\ \E field \in {"premises", "address_line_1", "address_line_2", "locality",
                             "region", "postal_code", "country"} :
                   HasText(profile.members[key], field)
        Primary ==
            /\ "type" \in DOMAIN profile.members
            /\ profile.members["type"] = PyStr(ROE)
        Preferred ==
            IF NoProfile THEN address_call.snippet
            ELSE IF Primary /\ Present("principal_office_address")
            THEN format_address(profile.members["principal_office_address"])
            ELSE IF Present("registered_office_address")
            THEN format_address(profile.members["registered_office_address"])
            ELSE address_call.snippet
    IN  address_call.pc = "returned" => address_call.chosen_addr = Preferred

\* C26 witness: for a profile of type registered-overseas-entity with both
\* addresses present and a snippet, the principal office address is chosen,
\* its fields joined in order.
C26_Witness ==
    /\ address_call.pc = "returned"
    /\ address_call.profile.type = "dict"
    /\ DOMAIN address_call.profile.members =
          {"type", "principal_office_address", "registered_office_address", "company_name"}
    /\ address_call.profile.members["type"] = PyStr(ROE)
    /\ format_address(address_call.profile.members["registered_office_address"])
          = "2 Registered Street, Leeds"
    /\ address_call.snippet = "3 Snippet Way"
    /\ address_call.chosen_addr = "1 Principal Road, Leeds"

\* C27: a search page that holds a strong match of the primary category (an
\* item of type registered-overseas-entity whose normalised title equals
\* the normalised query, or whose title is made of the same words as the
\* query) ends the call with one of these matches as its result, never an
\* oversea-company or a former-name result; when the page holds an
\* exact-name match among them, the result is an exact-name match.
C27_StrongRoeShortCircuits ==
    [][\A resp \in {r \in SearchResponses : r.status = 200} :
        LET items == resp.page.items
            Words(text) == WordSet(str_lower(text))
            Exact(it) ==
                it.company_type = ROE /\ normalise_text(it.title) = gcd.norm_query
            SameTokens(it) ==
                it.company_type = ROE /\ Words(it.title) = Words(gcd.company_name)
            exact == {k \in 1..Len(items) : Exact(items[k])}
            strong == exact \cup {k \in 1..Len(items) : SameTokens(items[k])}
        IN  GcdIterate(resp) /\ strong # {} =>
                /\ gcd_pc' = "idle"
                /\ \E k \in strong : last_call'.result = ItemResult(items[k])
                /\ exact # {} => \E k \in exact : last_call'.result = ItemResult(items[k])]_vars

\* C28: the search is sent for the next page only after a page of exactly
\* items_per_page items on which, as on page 0 before it, no item is a
\* strong match of the primary category; a page of fewer items ends the
\* call; and a call whose first request is answered by a page 0 holding a
\* strong match of the primary category ends having sent one request.
C28_PaginationOnlyWhileFullAndUnmatched ==
    [][\A resp \in SearchResponses :
        LET Words(text) == WordSet(str_lower(text))
            StrongRoe(it) ==
                /\ it.company_type = ROE
                /\ \/ normalise_text(it.title) = gcd.norm_query
                   \/ Words(it.title) = Words(gcd.company_name)
            Holds(items) == \E k \in 1..Len(items) : StrongRoe(items[k])
            NextPage == gcd_pc' = "loop" /\ gcd'.start_index > gcd.start_index
            Short == resp.status = 200
                        /\ Len(resp.page.items) + resp.page.filler < items_per_page
        IN  GcdIterate(resp) =>
                /\ NextPage =>
                        /\ resp.status = 200
                        /\ Len(resp.page.items) + resp.page.filler = items_per_page
                        /\ ~Holds(resp.page.items)
                        /\ gcd.start_index > 0 => ~Holds(gcd.first_page_items)
                /\ Short => gcd_pc' = "idle"
                /\ (resp.status = 200 /\ gcd.start_index = 0 /\ Holds(resp.page.items)) =>
                        /\ gcd_pc' = "idle"
                        /\ gcd.requests = 0 => last_call'.result # NegativeResult
                                                /\ last_call'.requests = 1]_vars

\* C29: a call that ends without a strong match of the primary category on
\* the pages it saw, by a page of fewer than items_per_page items or, on a
\* later page, by a 416 or a 404, returns the best strong oversea-company
\* match of those pages when there is one: the earliest exact-name match,
\* and without an exact-name match the earliest match on the words.
C29_BestSecondaryReturned ==
    [][\A resp \in SearchResponses :
        LET Words(text) == WordSet(str_lower(text))
            seen == (IF gcd.start_index > 0 THEN gcd.first_page_items ELSE <<>>)
                    \o (IF resp.status = 200 THEN resp.page.items ELSE <<>>)
            ByName(it) == normalise_text(it.title) = gcd.norm_query
            ByWords(it) == Words(it.title) = Words(gcd.company_name)
            roe == {k \in 1..Len(seen) :
                        seen[k].company_type = ROE /\ (ByName(seen[k]) \/ ByWords(seen[k]))}
            exact == {k \in 1..Len(seen) :
                        seen[k].company_type = OVERSEA /\ ByName(seen[k])}
            strong == exact \cup {k \in 1..Len(seen) :
                        seen[k].company_type = OVERSEA /\ ByWords(seen[k])}
            Ends == \/ resp.status = 200
                        /\ Len(resp.page.items) + resp.page.filler < items_per_page
                    \/ gcd.start_index > 0 /\ resp.status \in {416, 404}
        IN  GcdIterate(resp) /\ Ends /\ roe = {} /\ strong # {} =>
                /\ gcd_pc' = "idle"
                /\ last_call'.result =
                        ItemResult(seen[FirstOf(IF exact # {} THEN exact ELSE strong)])]_vars

\* C30: an item of type registered-overseas-entity or oversea-company whose
\* normalised title equals the normalised query, or whose title is made of
\* the words of the query, in any order and any number of times, is a
\* strong match of its type.
C30_SameWordsIsStrong ==
    [][\A resp \in {r \in SearchResponses : r.status = 200} :
        LET Words(text) == WordSet(str_lower(text))
            Matches(it) ==
                \/ normalise_text(it.title) = gcd.norm_query
                \/ Words(it.title) = Words(gcd.company_name)
        IN  GcdIterate(resp) =>
                \A k \in 1..Len(resp.page.items) :
                    Matches(resp.page.items[k]) =>
                        /\ resp.page.items[k].company_type = ROE =>
                                is_strong_roe(resp.page.items[k], gcd.norm_query)[1]
                        /\ resp.page.items[k].company_type = OVERSEA =>
                                is_strong_oversea(resp.page.items[k], gcd.norm_query)[1]]_vars

C32_ReturnedResultIsCached ==
    /\ last_call # NoCall =>
            /\ normalise_text(last_call.name) \in DOMAIN proprietor_cache
            /\ proprietor_cache[normalise_text(last_call.name)] = last_call.result
    /\ \A i \in 1..Len(bo_found) :
            bo_found[i] # NotLooked =>
                /\ normalise_text(row[i]) \in DOMAIN BO_cache
                /\ BO_cache[normalise_text(row[i])] = bo_found[i]

\* C32 witness: a call for "S.A.", whose normal form is empty, has sent a
\* request and returned the negative result, which the cache holds under
\* the empty key.
C32_Witness ==
    /\ last_call # NoCall
    /\ last_call.name = "S.A."
    /\ last_call.requests = 1
    /\ last_call.result = NegativeResult
    /\ proprietor_cache[""] = NegativeResult

\* C33: no step of a run changes or removes an entry of proprietor_cache or
\* of BO_cache: a key either cache holds is held after every step, with the
\* same value.
C33_CacheEntriesWriteOnce ==
    [][/\ \A k \in DOMAIN proprietor_cache :
            k \in DOMAIN proprietor_cache' /\ proprietor_cache'[k] = proprietor_cache[k]
       /\ \A k \in DOMAIN BO_cache :
            k \in DOMAIN BO_cache' /\ BO_cache'[k] = BO_cache[k]]_vars

\* C33 witness: the row "Ab Ltd", None, blank, "AB" is through its four
\* proprietors: the first was looked up and found with controllers, the
\* fourth, another spelling of the same normal form, was given the entry
\* BO_cache holds.
C33_Witness ==
    /\ row = <<"Ab Ltd", PyNone, "  ", "AB">>
    /\ Len(bo_found) = 4
    /\ bo_found[1] # NotLooked
    /\ bo_found[1].status = "OK"
    /\ bo_found[4] = bo_found[1]
    /\ BO_cache["ab"] = bo_found[1]

\* C34: a controller one of whose fields ceased, ceased_on and ceased_date
\* holds a value that is not empty, zero or false-like (True, a number
\* other than 0, a string other than '', '0', 'false', 'no', 'none',
\* 'null') is taken for ceased by the ceased test, also when its ceased
\* field is False and a cessation date is present.
C34_AnyCeasedFieldMeansCeased ==
    LET Says(value) ==
            CASE value.type = "NoneType" -> FALSE
              [] value.type = "bool" -> value.bool
              [] value.type = "int" -> value.int # 0
              [] value.type = "str" ->
                    str_lower(strip(value.str))
                        \notin {"", "0", "false", "no", "none", "null"}
    IN  \A i \in 1..Len(bo_found) :
            bo_found[i] # NotLooked =>
                \A k \in 1..Len(bo_found[i].bos) :
                    (\/ Says(bo_found[i].bos[k].ceased)
                     \/ Says(bo_found[i].bos[k].ceased_on)
                     \/ Says(bo_found[i].bos[k].ceased_date))
                        => is_ceased_beneficial_owner(bo_found[i].bos[k])

\* C35: in a returned update_dict a corporate controller whose address
\* ends, case and surrounding blanks apart, in jersey, isle of man,
\* guernsey or netherlands is never labelled UK, whatever its legal form
\* and its coordinates; its label is the one the remaining tests give:
\* listed, else government-owned, else manually checked, else trustee, else
\* suspect.
C35_ExcludedSuffixSkipsUk ==
    LET EndsIn(text, suffix) ==
            /\ Len(suffix) <= Len(text)
            /\ SubSeq(text, Len(text) - Len(suffix) + 1, Len(text)) = suffix
        Excluded(address) ==
            /\ address # PyNone
            /\ \E suffix \in {"jersey", "isle of man", "guernsey", "netherlands"} :
                  EndsIn(strip(str_lower(address)), suffix)
        Remaining(slot) ==
            IF is_listed_company(slot.name) THEN "listed"
            ELSE IF is_government_owned(slot.name) THEN "government-owned"
            ELSE IF is_it_excluded(slot.name) THEN "manually checked"
            ELSE IF trustee_control(slot.natures_of_control) = "yes" THEN "trustee"
            ELSE "suspect"
    IN  ReturnedResult =>
            \A p \in CorporateFilled :
                Excluded(SlotAt(p).address) =>
                    StatusOf(p) # "UK" /\ StatusOf(p) = Remaining(SlotAt(p))

\* C35 witness: a controller at "1 Esplanade, St Helier, JERSEY ",
\* registered in "Englnd and Wales" and with coordinates in London, named
\* as a government-owned company, is labelled government-owned.
C35_Witness ==
    /\ ReturnedResult
    /\ \E p \in CorporateFilled :
          /\ SlotAt(p).address = "1 Esplanade, St Helier, JERSEY "
          /\ ~Blank(SlotAt(p).legal_form)
          /\ Contains(SlotAt(p).legal_form, "Englnd and Wales")
          /\ SlotAt(p).latlon = "(51.5, -0.12)"
          /\ SlotAt(p).name = "Oman Oil"
          /\ StatusOf(p) = "government-owned"

\* C36: what a call returns for a raw name comes from the registry's
\* answers to that raw name: a call that returned without sending a search
\* request repeats an earlier call of the same raw name and returns what
\* that call returned, so that the result does not depend on another
\* spelling having been resolved before.
C36_ResultFromOwnAnswers ==
    (last_call # NoCall /\ last_call.requests = 0) =>
        /\ last_call.repeat
        /\ last_call.result = first_call[last_call.name].result

\* C37: a call never returns an item for a name whose normal form is empty:
\* whenever the last call returned an item, the normal form of its name is
\* not empty and equals the normalised title of that item or the normal
\* form of one of the parts of its snippet.
C37_NoMatchForEmptyNormalForm ==
    LET Matches(it, norm_query) ==
            \/ normalise_text(it.title) = norm_query
            \/ LET parts == SplitOn(it.snippet, "·")
               IN  \E n \in 1..Len(parts) : normalise_text(strip(parts[n])) = norm_query
    IN  (last_call # NoCall /\ last_call.result # NegativeResult) =>
            /\ normalise_text(last_call.name) # ""
            /\ \E it \in SearchItems :
                    /\ ItemResult(it) = last_call.result
                    /\ Matches(it, normalise_text(last_call.name))

\* C38: once the classification phase has run on the table, every BO slot
\* of a row the resolution run processed and wrote carries a status label
\* if and only if it carries a kind.
C38_LabelIffKind ==
    LET Slot(i, j) ==
            "proprietor" \o Ch(Digits, i + 1) \o "_BO" \o Ch(Digits, j + 1) \o "_"
    IN  (run.pc = "classified" /\ ~run.DRY_RUN) =>
            \A n \in 1..Len(run.rows) :
                \A i \in 1..MaxProprietors, j \in 1..MaxSlots :
                    (db[run.rows[n]][Slot(i, j) \o "reg_status"] # PyNone)
                        <=> (db[run.rows[n]][Slot(i, j) \o "kind"] # PyNone)

\* C39: a call makes progress with every definitive response (a page, a
\* 404, a 403 or a 416): it returns, or, after a full page, asks for the
\* next page; the page index never decreases, and the same page is asked
\* for again only after a response that is not definitive (502, 429,
\* another server error, an exception of the request).  The pages of a
\* finite result list then being used up, the call sends finitely many
\* requests and returns.
C39_DefinitiveResponseMakesProgress ==
    [][\A resp \in SearchResponses :
        LET definitive == resp.status \in {200, 404, 403, 416}
            SamePage == gcd_pc' = "loop" /\ gcd'.start_index = gcd.start_index
            NextPage == gcd_pc' = "loop" /\ gcd'.start_index > gcd.start_index
        IN  GcdIterate(resp) =>
                /\ gcd_pc' = "loop" => gcd'.start_index >= gcd.start_index
                /\ SamePage => ~definitive
                /\ definitive => gcd_pc' = "idle" \/ NextPage
                /\ NextPage => /\ resp.status = 200
                               /\ Len(resp.page.items) + resp.page.filler = items_per_page]_vars
=============================================================================
